---- MODULE Spec2Model ----
(***************************************************************************)
(* A model of the cookbook backend (src/backend/cookbook): the relational  *)
(* store (one variable per table), and one action per HTTP handler.  A     *)
(* handler runs in one SQLAlchemy session opened by the middleware         *)
(* (main.py:20-28): what it changes becomes durable only at db.commit();   *)
(* a handler that raises before its commit leaves the store as it was      *)
(* (the session is closed, which rolls back).                              *)
(*                                                                         *)
(* Left out, as the collaborators the specification calls external:        *)
(* password hashing (a hash verifies exactly its own password), the JWT    *)
(* signature (a token is either one this service signed, or "bad"), the    *)
(* response serialisation (response_model) and the image files.            *)
(* A collection loaded from the store comes in primary-key order           *)
(* (InnoDB's clustered index on (recipe_id, index)).                       *)
(*                                                                         *)
(* A record is a row, a request body or a response.  The fields of every   *)
(* record are written in one order throughout: that in which the names     *)
(* first occur in this module.                                             *)
(***************************************************************************)
EXTENDS Integers, Sequences, FiniteSets, TLC

(***************************************************************************)
(* Bounds of the model.                                                    *)
(***************************************************************************)
MaxRecipes == 2        \* recipe rows created in one behaviour
MaxBooks == 1          \* recipe-book rows created in one behaviour
MaxUuid == 2         \* uuid4() values drawn in one behaviour
MaxTicks == 2          \* steps of the clock in one behaviour
MaxLen == 2            \* length of a submitted component/step/ingredient list
MaxScopes == 3         \* largest permission bitmask an access token carries
MaxRequests == 2       \* requests handled at the same time

(***************************************************************************)
(* Program constants (seconds).                                            *)
(***************************************************************************)
AccessTokenTTL == 900        \* timedelta(minutes=15)
RefreshTokenTTL == 21900     \* timedelta(minutes=365)
Leeway == 10                 \* leeway=timedelta(seconds=10)
MAX_FILE_SIZE == 5242880
ADMIN_BIT == 1               \* Permission.ADMIN: 1 << 0

Users == {"u1", "u2"}
NULL == ""                   \* Python's None in a string column
None == 0                    \* Python's None in an integer/datetime column

\* The user table. No handler writes it (scripts/admin.py seeds it).
user ==
    [u \in Users |->
        [username |-> u,
         hashed_password |-> <<"bcrypt", IF u = "u1" THEN "pw1" ELSE "pw2">>,
         permissions |-> IF u = "u1" THEN ADMIN_BIT ELSE 0]]

VARIABLES
    now,                  \* the wall clock, utc_now() / datetime.now()
    ticks,                \* how often the clock has advanced
    refresh_token,        \* table refresh_token
    picture,              \* table picture
    ingredient,           \* table ingredient (the catalog)
    tool,                 \* table tool (the catalog)
    recipe,               \* table recipe
    recipe_pictures,      \* table recipe_pictures (recipe <-> picture)
    recipe_component,     \* table recipe_component
    component_ingredient, \* table component_ingredient
    recipe_step,          \* table recipe_step
    step_ingredient,      \* table step_ingredient
    recipe_tool,          \* table recipe_tool
    recipe_book,          \* table recipe_book
    recipe_book_recipes,  \* table recipe_book_recipes (book <-> recipe)
    uuid,                 \* how many uuid4() values have been drawn
    held,                 \* the signed refresh tokens that clients hold
    not_null,             \* whether the deployed schema rejects a NULL user_id
    inflight,             \* the requests handled concurrently, between their reads and their commit
    resp                  \* the response to the last request

store_vars ==
    <<refresh_token, picture, ingredient, tool, recipe, recipe_pictures,
      recipe_component, component_ingredient, recipe_step, step_ingredient,
      recipe_tool, recipe_book, recipe_book_recipes>>

vars == <<now, ticks, store_vars, uuid, held, not_null, inflight, resp>>

\* The persisted store, every table a set of rows, as one value.
Store ==
    [refresh_token |-> refresh_token, picture |-> picture,
     ingredient |-> ingredient, tool |-> tool, recipe |-> recipe,
     recipe_pictures |-> recipe_pictures,
     recipe_component |-> recipe_component,
     component_ingredient |-> component_ingredient,
     recipe_step |-> recipe_step, step_ingredient |-> step_ingredient,
     recipe_tool |-> recipe_tool, recipe_book |-> recipe_book,
     recipe_book_recipes |-> recipe_book_recipes]

\* db.commit(): the session's state becomes the persisted store.
Commit(s) ==
    /\ refresh_token' = s.refresh_token
    /\ picture' = s.picture
    /\ ingredient' = s.ingredient
    /\ tool' = s.tool
    /\ recipe' = s.recipe
    /\ recipe_pictures' = s.recipe_pictures
    /\ recipe_component' = s.recipe_component
    /\ component_ingredient' = s.component_ingredient
    /\ recipe_step' = s.recipe_step
    /\ step_ingredient' = s.step_ingredient
    /\ recipe_tool' = s.recipe_tool
    /\ recipe_book' = s.recipe_book
    /\ recipe_book_recipes' = s.recipe_book_recipes

\* A session that writes what it holds when it is closed.
commit_on_close(s, session) == session

\* The end of a request that raised before db.commit(), or whose commit
\* failed: the session is closed (db/session.py:27-30) and the
\* transaction rolled back.  `s` is the persisted store and `session` the
\* store as the session held it, pending objects and assigned attributes
\* included.
rollback(s, session) == s

(***************************************************************************)
(* Tokens (auth.py).                                                       *)
(***************************************************************************)
NoToken == [kind |-> "none", sub |-> NULL, jti |-> None, exp |-> None, scopes |-> None]
BadToken == [kind |-> "bad", sub |-> NULL, jti |-> None, exp |-> None, scopes |-> None]

\* A verification that takes any password.
verify_any_password(plain_password, hashed_password) == TRUE

verify_password(plain_password, hashed_password) ==
    hashed_password = <<"bcrypt", plain_password>>

get_user(username) ==
    {u \in Users : user[u].username = username}

\* authenticate_user: the set holding the user, or the empty set (None).
authenticate_user(username, password) ==
    {u \in get_user(username) : verify_password(password, user[u].hashed_password)}

create_token(data, expires_delta) ==
    [data EXCEPT !.exp = now + expires_delta]

create_access_token(u) ==
    create_token([kind |-> "jwt", sub |-> u, jti |-> None, exp |-> None,
                  scopes |-> user[u].permissions], AccessTokenTTL)

\* The token create_refresh_token signs; refresh_id is uuid4().hex.
refresh_jwt(u, refresh_id) ==
    create_token([kind |-> "jwt", sub |-> u, jti |-> refresh_id, exp |-> None,
                  scopes |-> None], RefreshTokenTTL)

\* The row create_refresh_token adds: RefreshToken(id=..., expires_at=...).
refresh_row(u, refresh_id) ==
    [id |-> refresh_id, user_id |-> NULL, created_at |-> now,
     expires_at |-> refresh_jwt(u, refresh_id).exp]

\* refresh_token.user_id is declared NOT NULL: the INSERT of a row without
\* it raises IntegrityError where the schema enforces the declaration.
insert_ok(row) == ~(not_null /\ row.user_id = NULL)

\* get_token_data: the outcome of decoding the presented token.
get_token_data(token) ==
    IF token.kind = "none" THEN [status |-> 401, detail |-> "Not authenticated"]
    ELSE IF token.kind = "bad" THEN [status |-> 401, detail |-> "Invalid token"]
    ELSE IF token.exp + Leeway <= now THEN [status |-> 401, detail |-> "Expired token"]
    ELSE [status |-> 200, detail |-> "ok"]

\* get_refresh_token: reads the cookie "request_token" of the request.
\* Gives the outcome and the session's store at the end of the dependency.
get_refresh_token(s, cookies) ==
    LET token == cookies.request_token
        dec == get_token_data(token)
        rows == {r \in s.refresh_token : r.id = token.jti}
    IN  IF dec.status # 200
        THEN [s |-> s, status |-> dec.status, detail |-> dec.detail, rows |-> {}]
        ELSE IF token.sub = NULL \/ token.jti = None
        THEN [s |-> s, status |-> 403, detail |-> "Invalid token", rows |-> {}]
        ELSE IF rows = {}
        THEN [s |-> [s EXCEPT !.refresh_token =
                        {r \in s.refresh_token : r.user_id # token.sub}],
              status |-> 403, detail |-> "Invalid token",
              rows |-> {}]
        ELSE [s |-> s, status |-> 200, detail |-> "ok", rows |-> rows]

\* The cookies of a request: login sets "refresh_token" (api/token.py:40),
\* get_refresh_token reads "request_token" (auth.py:202).
NoCookies == [refresh_token |-> NoToken, request_token |-> NoToken]

\* The requests a client can send: no cookie, or one cookie, under either
\* name, holding a token it was given or a string that is no signed token.
CookieJars ==
    {NoCookies}
    \cup {[NoCookies EXCEPT !.refresh_token = t] : t \in held \cup {BadToken}}
    \cup {[NoCookies EXCEPT !.request_token = t] : t \in held \cup {BadToken}}

\* A response, with the request it answers: `data` is the request body,
\* `items` the ids of the rows the response returns, `before` the number
\* of ingredient rows of each step the recipe had when a patch_recipe
\* request came in, `bearer` the access token the request carried in its
\* Authorization header, and `contains` the ids of the recipes whose
\* content a read returns, alone or as members of a recipe book.
NoData == [name |-> NULL]

NoResp ==
    [user |-> NULL, data |-> NoData, id |-> None, status |-> None, detail |-> "",
     op |-> "none", access |-> NoToken, cookie |-> NoToken, sent |-> NoCookies,
     items |-> {}, before |-> <<>>, bearer |-> NoToken, contains |-> {}]

(***************************************************************************)
(* The clock.                                                              *)
(***************************************************************************)
Tick(d) ==
    /\ ticks < MaxTicks
    /\ now' = now + d
    /\ ticks' = ticks + 1
    /\ UNCHANGED <<store_vars, uuid, held, not_null, inflight, resp>>

(***************************************************************************)
(* POST /token/ (api/token.py login).                                      *)
(***************************************************************************)
login(username, password) ==
    LET found == authenticate_user(username, password)
        base == [NoResp EXCEPT !.op = "login", !.user = username,
                    !.data = [username |-> username, password |-> password]]
    IN
    /\ found # {} => uuid < MaxUuid
    /\ IF found = {}
       THEN /\ resp' = [base EXCEPT !.status = 400,
                           !.detail = "Incorrect username or password"]
            /\ UNCHANGED <<store_vars, uuid, held>>
       ELSE LET u == CHOOSE x \in found : TRUE
                refresh_id == uuid + 1
                row == refresh_row(u, refresh_id)
            IN  /\ uuid' = refresh_id
                /\ IF insert_ok(row)
                   THEN /\ Commit([Store EXCEPT !.refresh_token = @ \cup {row}])
                        /\ held' = held \cup {refresh_jwt(u, refresh_id)}
                        /\ resp' = [base EXCEPT !.status = 200, !.detail = "ok",
                                       !.access = create_access_token(u),
                                       !.cookie = refresh_jwt(u, refresh_id)]
                   ELSE /\ UNCHANGED <<store_vars, held>>
                        /\ resp' = [base EXCEPT !.status = 500,
                                       !.detail = "IntegrityError"]
    /\ UNCHANGED <<now, ticks, not_null, inflight>>

(***************************************************************************)
(* POST /token/refresh (api/token.py refresh_token), behind the            *)
(* dependency get_refresh_token.  A request that ends in an HTTPException  *)
(* has committed nothing: the session closes and rolls back.               *)
(***************************************************************************)
refresh(cookies) ==
    LET dep == get_refresh_token(Store, cookies)
        base == [NoResp EXCEPT !.op = "refresh", !.sent = cookies,
                    !.user = cookies.request_token.sub]
    IN
    /\ IF dep.status # 200
       THEN /\ resp' = [base EXCEPT !.status = dep.status, !.detail = dep.detail]
            /\ UNCHANGED <<store_vars, uuid, held>>
       ELSE LET rt == CHOOSE r \in dep.rows : TRUE
                user_id == rt.user_id
            IN  IF user_id \notin Users
                THEN /\ resp' = [base EXCEPT !.status = 400, !.detail = "Invalid token"]
                     /\ UNCHANGED <<store_vars, uuid, held>>
                ELSE LET refresh_id == uuid + 1
                         row == refresh_row(user_id, refresh_id)
                     IN  /\ uuid < MaxUuid
                         /\ uuid' = refresh_id
                         /\ IF insert_ok(row)
                            THEN /\ Commit([dep.s EXCEPT !.refresh_token = @ \cup {row}])
                                 /\ held' = held \cup {refresh_jwt(user_id, refresh_id)}
                                 /\ resp' = [base EXCEPT !.status = 200, !.detail = "ok",
                                                !.access = create_access_token(user_id),
                                                !.cookie = refresh_jwt(user_id, refresh_id)]
                            ELSE /\ UNCHANGED <<store_vars, held>>
                                 /\ resp' = [base EXCEPT !.status = 500,
                                                !.detail = "IntegrityError"]
    /\ UNCHANGED <<now, ticks, not_null, inflight>>

(***************************************************************************)
(* Loading a collection.  No relationship() states an order_by, so the     *)
(* rows of a collection come back in the order of the table's clustered    *)
(* primary key: (recipe_id, index) for components and steps, and           *)
(* (recipe_id, <parent index>, ingredient_name, index) for ingredient      *)
(* rows, whose key has the name before the index (db/models.py:172-177,    *)
(* 236-241).                                                               *)
(***************************************************************************)
IngredientNames == <<"flour", "salt">>      \* in collation order
ToolNames == {"pan", "whisk"}

NameRank(n) == CHOOSE i \in 1..Len(IngredientNames) : IngredientNames[i] = n

RECURSIVE ByIndex(_)
ByIndex(rows) ==
    IF rows = {} THEN <<>>
    ELSE LET first == CHOOSE r \in rows : \A q \in rows : r.index <= q.index
         IN  <<first>> \o ByIndex(rows \ {first})

PkBefore(a, b) ==
    \/ NameRank(a.ingredient_name) < NameRank(b.ingredient_name)
    \/ /\ a.ingredient_name = b.ingredient_name
       /\ a.index <= b.index

RECURSIVE ByNameIndex(_)
ByNameIndex(rows) ==
    IF rows = {} THEN <<>>
    ELSE LET first == CHOOSE r \in rows : \A q \in rows : PkBefore(r, q)
         IN  <<first>> \o ByNameIndex(rows \ {first})

\* recipe.components, recipe.steps
components_of(s, rid) == ByIndex({c \in s.recipe_component : c.recipe_id = rid})
steps_of(s, rid) == ByIndex({c \in s.recipe_step : c.recipe_id = rid})

\* component.ingredients, step.ingredients
component_ingredients_of(s, rid, idx) ==
    ByNameIndex({g \in s.component_ingredient :
                    g.recipe_id = rid /\ g.recipe_component_index = idx})
step_ingredients_of(s, rid, idx) ==
    ByNameIndex({g \in s.step_ingredient :
                    g.recipe_id = rid /\ g.recipe_step_index = idx})

\* For each step of the recipe, in order, the number of its ingredient rows.
step_ingredient_counts(s, rid) ==
    [i \in 1..Len(steps_of(s, rid)) |->
        Len(step_ingredients_of(s, rid, steps_of(s, rid)[i].index))]

\* recipe.pictures, as the set of their ids
pictures_of(s, rid) == {a.picture_id : a \in {x \in s.recipe_pictures : x.recipe_id = rid}}

Range(seq) == {seq[i] : i \in 1..Len(seq)}

\* Whether the values of a sequence are pairwise different.
Distinct(seq) == \A i, j \in 1..Len(seq) : seq[i] = seq[j] => i = j

RECURSIVE Concat(_)
Concat(seqs) == IF seqs = <<>> THEN <<>> ELSE Head(seqs) \o Concat(Tail(seqs))

(***************************************************************************)
(* Picture.find (db/models.py:89-107), applied to the ids a handler        *)
(* resolves, in the handler's order: the first failure ends the request.   *)
(***************************************************************************)
\* Picture.find without `picture.used = True`.
Picture_find_unflagged(pictures, picture_id, user_id) ==
    IF \A p \in pictures : p.id # picture_id
    THEN [picture |-> pictures, status |-> 404, detail |-> "Picture not found"]
    ELSE IF \E p \in pictures : p.id = picture_id /\ p.user_id # user_id
    THEN [picture |-> pictures, status |-> 401,
          detail |-> "Access to picture not allowed"]
    ELSE [picture |-> pictures, status |-> 200, detail |-> "ok"]

\* Picture.find without the `picture.user_id != user.id` branch.
Picture_find_any(pictures, picture_id, user_id) ==
    IF \A p \in pictures : p.id # picture_id
    THEN [picture |-> pictures, status |-> 404, detail |-> "Picture not found"]
    ELSE [picture |-> {IF p.id = picture_id THEN [p EXCEPT !.used = TRUE] ELSE p :
                          p \in pictures},
          status |-> 200, detail |-> "ok"]

Picture_find(pictures, picture_id, user_id) ==
    LET rows == {p \in pictures : p.id = picture_id} IN
    IF rows = {}
    THEN [picture |-> pictures, status |-> 404, detail |-> "Picture not found"]
    ELSE IF \E p \in rows : p.user_id # user_id
    THEN [picture |-> pictures, status |-> 401,
          detail |-> "Access to picture not allowed"]
    ELSE [picture |-> {IF p.id = picture_id THEN [p EXCEPT !.used = TRUE] ELSE p :
                          p \in pictures},
          status |-> 200, detail |-> "ok"]

RECURSIVE find_pictures(_, _, _)
find_pictures(pictures, ids, user_id) ==
    IF ids = <<>> THEN [picture |-> pictures, status |-> 200, detail |-> "ok"]
    ELSE LET r == Picture_find(pictures, Head(ids), user_id)
         IN  IF r.status # 200 THEN r
             ELSE find_pictures(r.picture, Tail(ids), user_id)

(***************************************************************************)
(* Ingredient.find_or_create and Tool.find_or_create                       *)
(* (db/models.py:153-163, 118-126).  db.get sees the rows of the store     *)
(* and the objects the session has loaded; an object that was only         *)
(* db.add()ed is pending and, the session being created with               *)
(* autoflush=False (db/session.py:22), is not found by a later db.get of   *)
(* the same request.  The result is the sequence of objects the calls      *)
(* add to the session, in call order.                                      *)
(***************************************************************************)
Ingredient_find_or_create(ingredients, pending, name, unit) ==
    IF \E g \in ingredients : g.name = name
    THEN pending
    ELSE Append(pending, [name |-> name, default_unit |-> unit])

RECURSIVE new_ingredients(_, _, _)
new_ingredients(ingredients, pending, calls) ==
    IF calls = <<>> THEN pending
    ELSE new_ingredients(ingredients,
            Ingredient_find_or_create(ingredients, pending,
                                      Head(calls).name, Head(calls).unit),
            Tail(calls))

Tool_find_or_create(tools, pending, name) ==
    IF \E t \in tools : t.name = name
    THEN pending
    ELSE Append(pending, [name |-> name])

RECURSIVE new_tools(_, _, _)
new_tools(tools, pending, calls) ==
    IF calls = <<>> THEN pending
    ELSE new_tools(tools,
            Tool_find_or_create(tools, pending, Head(calls).tool_name),
            Tail(calls))

\* An INSERT that is not checked against the rows of the table.
insert_unchecked(ingredients, pending) == TRUE

\* The INSERTs of a flush: a primary key given twice is an IntegrityError.
ingredient_insert_ok(ingredients, pending) ==
    /\ Distinct([i \in 1..Len(pending) |-> pending[i].name])
    /\ \A i \in 1..Len(pending) : \A g \in ingredients : g.name # pending[i].name

tool_insert_ok(tools, pending) ==
    /\ Distinct([i \in 1..Len(pending) |-> pending[i].name])
    /\ \A i \in 1..Len(pending) : \A t \in tools : t.name # pending[i].name

(***************************************************************************)
(* POST /pictures/ and GET /pictures/{id} (api/pictures.py).               *)
(***************************************************************************)
ACCEPTED_FILE_TYPES == {"image/png", "image/jpeg", "image/jpg", "image/svg", "image/webp"}
ACCEPTED_FILE_EXTENSIONS == {"png", "jpeg", "jpg", "svg", "webp"}

\* A file: its extension stands for os.path.splitext(filename)[1][1:], a
\* size of None for a body whose size the framework does not know, and
\* `image` for whether PIL's Image.open identifies the payload.
Files ==
    [filename : {"", "a"}, ext : {"png", "svg", "PNG", "txt"},
     content_type : {"image/png", "image/svg+xml", "text/plain"},
     size : {None, 1, MAX_FILE_SIZE, MAX_FILE_SIZE + 1},
     image : BOOLEAN]

\* A type check that refuses a file when either of the two is unknown.
type_refused_either(file) ==
    \/ file.content_type \notin ACCEPTED_FILE_TYPES
    \/ file.ext \notin ACCEPTED_FILE_EXTENSIONS

\* file.content_type not in ... and ext not in ... (api/pictures.py:50-53)
type_refused(file) ==
    /\ file.content_type \notin ACCEPTED_FILE_TYPES
    /\ file.ext \notin ACCEPTED_FILE_EXTENSIONS

upload_picture(u, file) ==
    LET base == [NoResp EXCEPT !.op = "upload_picture", !.user = u,
                    !.data = file]
    IN
    /\ IF file.filename = ""
       THEN /\ resp' = [base EXCEPT !.status = 400, !.detail = "Missing filename"]
            /\ UNCHANGED <<store_vars, uuid>>
       ELSE IF type_refused(file)
       THEN /\ resp' = [base EXCEPT !.status = 400,
                           !.detail = "Only jpg and png pictures allowed"]
            /\ UNCHANGED <<store_vars, uuid>>
       ELSE IF file.size = None \/ file.size > MAX_FILE_SIZE
       THEN /\ resp' = [base EXCEPT !.status = 413, !.detail = "Picture is to big"]
            /\ UNCHANGED <<store_vars, uuid>>
       ELSE IF ~file.image
       THEN /\ resp' = [base EXCEPT !.status = 500,
                           !.detail = "UnidentifiedImageError"]
            /\ UNCHANGED <<store_vars, uuid>>
       ELSE /\ uuid < MaxUuid
            /\ uuid' = uuid + 1
            /\ Commit([Store EXCEPT !.picture =
                         @ \cup {[id |-> uuid + 1, user_id |-> u, used |-> FALSE]}])
            /\ resp' = [base EXCEPT !.status = 200, !.detail = "ok",
                           !.id = uuid + 1, !.items = {uuid + 1}]
    /\ UNCHANGED <<now, ticks, held, not_null, inflight>>

get_picture(u, picture_id) ==
    LET base == [NoResp EXCEPT !.op = "get_picture", !.user = u, !.id = picture_id]
        pic == {p \in picture : p.id = picture_id}
    IN
    /\ IF pic = {}
       THEN resp' = [base EXCEPT !.status = 404, !.detail = "Picture not found"]
       ELSE resp' = [base EXCEPT !.status = 200, !.detail = "ok",
                        !.items = {picture_id}]
    /\ UNCHANGED <<now, ticks, store_vars, uuid, held, not_null, inflight>>

(***************************************************************************)
(* Recipes (api/recipes.py).  A request body `data` is a NewRecipe or a    *)
(* PatchRecipe (api/schemas.py:113-136); a picture id that is None is the  *)
(* falsy id of `if data.cover_id`.                                         *)
(***************************************************************************)
\* The find_or_create calls for ingredients, in the handler's order.
ingredient_calls(data) ==
    Concat([i \in 1..Len(data.components) |-> data.components[i].ingredients])
    \o Concat([i \in 1..Len(data.steps) |-> data.steps[i].ingredients])

\* The ids of the step pictures the handler resolves, in its order.
step_picture_ids(data) ==
    LET with_picture == SelectSeq(data.steps, LAMBDA st : st.picture_id # None)
    IN  [i \in 1..Len(with_picture) |-> with_picture[i].picture_id]

cover_ids(data) == IF data.cover_id # None THEN <<data.cover_id>> ELSE <<>>

\* The first step (counted from 1) whose picture Picture.find refuses,
\* given the picture table as the session holds it when the loop over the
\* steps begins; 0 when none is refused.
failed_step(pictures, data, u) ==
    LET refused == {k \in 1..Len(data.steps) :
                      find_pictures(pictures,
                          step_picture_ids([data EXCEPT !.steps = SubSeq(@, 1, k)]),
                          u).status # 200}
    IN  IF refused = {} THEN 0
        ELSE CHOOSE k \in refused : \A j \in refused : k <= j

\* The find_or_create calls for ingredients the handler has made when it
\* raises: none when the cover or an entry of picture_ids is refused
\* (`first` is the outcome of those lookups), and otherwise those of the
\* components and of the steps before the step whose picture is refused.
ingredient_calls_made(first, data, u) ==
    IF first.status # 200 THEN <<>>
    ELSE LET k == failed_step(first.picture, data, u) IN
         IF k = 0 THEN ingredient_calls(data)
         ELSE Concat([i \in 1..Len(data.components) |->
                         data.components[i].ingredients])
              \o Concat([i \in 1..(k - 1) |-> data.steps[i].ingredients])

ComponentIngredient(rid, cidx, i, new_ingredient) ==
    [index |-> i, ingredient_name |-> new_ingredient.name,
     recipe_id |-> rid, recipe_component_index |-> cidx,
     unit |-> new_ingredient.unit, value |-> new_ingredient.value,
     hint |-> new_ingredient.hint]

StepIngredient(rid, sidx, i, new_ingredient) ==
    [index |-> i, ingredient_name |-> new_ingredient.name,
     recipe_id |-> rid, recipe_step_index |-> sidx,
     unit |-> new_ingredient.unit, value |-> new_ingredient.value,
     hint |-> new_ingredient.hint]

RecipeComponent(rid, idx, new_component) ==
    [name |-> new_component.name, index |-> idx, recipe_id |-> rid,
     description |-> new_component.description]

RecipeStep(rid, idx, new_step) ==
    [index |-> idx, recipe_id |-> rid, picture_id |-> new_step.picture_id,
     description |-> new_step.description]

RecipeTool(rid, new_tool) ==
    [recipe_id |-> rid, tool_name |-> new_tool.tool_name, hint |-> new_tool.hint]

\* The primary keys of the child tables.
component_pk(c) == <<c.recipe_id, c.index>>
ingredient_pk(g) == <<g.ingredient_name, g.index>>
tool_pk(t) == <<t.recipe_id, t.tool_name>>

PksDistinct(rows, pk(_)) == Distinct([i \in 1..Len(rows) |-> pk(rows[i])])

(***************************************************************************)
(* POST /recipes/ (post_recipe): every child is built new, with            *)
(* index = its position in the submitted list.                             *)
(***************************************************************************)
post_components(rid, data) ==
    [idx \in 1..Len(data.components) |->
        RecipeComponent(rid, idx - 1, data.components[idx])]

post_component_ingredients(rid, data) ==
    [idx \in 1..Len(data.components) |->
        [i \in 1..Len(data.components[idx].ingredients) |->
            ComponentIngredient(rid, idx - 1, i - 1,
                                data.components[idx].ingredients[i])]]

post_steps(rid, data) ==
    [idx \in 1..Len(data.steps) |-> RecipeStep(rid, idx - 1, data.steps[idx])]

post_step_ingredients(rid, data) ==
    [idx \in 1..Len(data.steps) |->
        [i \in 1..Len(data.steps[idx].ingredients) |->
            StepIngredient(rid, idx - 1, i - 1, data.steps[idx].ingredients[i])]]

recipe_tools(rid, data) ==
    [i \in 1..Len(data.tools) |-> RecipeTool(rid, data.tools[i])]

post_recipe(u, data) ==
    LET base == [NoResp EXCEPT !.op = "post_recipe", !.user = u, !.data = data]
        found == find_pictures(picture,
                    cover_ids(data) \o data.picture_ids \o step_picture_ids(data), u)
        rid == Cardinality(recipe) + 1
        new_ing == new_ingredients(ingredient, <<>>, ingredient_calls(data))
        new_tool == new_tools(tool, <<>>, data.tools)
        tools == recipe_tools(rid, data)
        row == [id |-> rid, user_id |-> u, created_at |-> now,
                name |-> data.name, unit |-> data.unit, cover_id |-> data.cover_id,
                description |-> data.description, updated_at |-> now, published_at |-> None,
                rating |-> 0, tags |-> data.tags,
                number |-> data.number]
        flushed ==
            /\ ingredient_insert_ok(ingredient, new_ing)
            /\ tool_insert_ok(tool, new_tool)
            /\ PksDistinct(tools, tool_pk)
            /\ Distinct(data.picture_ids)
        \* the session when a Picture.find raises: the flags of the pictures
        \* found so far and the catalog rows added so far
        raised ==
            [Store EXCEPT
                !.picture = found.picture,
                !.ingredient = @ \cup Range(new_ingredients(ingredient, <<>>,
                    ingredient_calls_made(
                        find_pictures(picture,
                                      cover_ids(data) \o data.picture_ids, u),
                        data, u)))]
        \* the session at db.commit()
        after ==
            [Store EXCEPT
                !.picture = found.picture,
                !.ingredient = @ \cup Range(new_ing),
                !.tool = @ \cup Range(new_tool),
                !.recipe = @ \cup {row},
                !.recipe_pictures = @ \cup
                    {[recipe_id |-> rid, picture_id |-> pid] :
                        pid \in Range(data.picture_ids)},
                !.recipe_component = @ \cup Range(post_components(rid, data)),
                !.component_ingredient = @ \cup
                    Range(Concat(post_component_ingredients(rid, data))),
                !.recipe_step = @ \cup Range(post_steps(rid, data)),
                !.step_ingredient = @ \cup
                    Range(Concat(post_step_ingredients(rid, data))),
                !.recipe_tool = @ \cup Range(tools)]
    IN
    /\ IF found.status # 200
       THEN /\ resp' = [base EXCEPT !.status = found.status, !.detail = found.detail]
            /\ Commit(rollback(Store, raised))
       ELSE /\ Cardinality(recipe) < MaxRecipes
            /\ IF ~flushed
               THEN /\ resp' = [base EXCEPT !.status = 500, !.detail = "IntegrityError"]
                    /\ Commit(rollback(Store, after))
               ELSE /\ Commit(after)
                    /\ resp' = [base EXCEPT !.status = 201, !.detail = "ok",
                                   !.id = rid, !.items = {rid}]
    /\ UNCHANGED <<now, ticks, uuid, held, not_null, inflight>>

(***************************************************************************)
(* GET /recipes/ and GET /recipes/{recipe_id}.                             *)
(***************************************************************************)
published(row) == row.published_at # None

\* A list that does not filter on published_at.
select_all(rows) == rows

\* select(Recipe).where(Recipe.published_at.is_not(None))
select_published(rows) == {x \in rows : x.published_at # None}

get_recipes ==
    /\ resp' = [NoResp EXCEPT !.op = "get_recipes", !.status = 200, !.detail = "ok",
                   !.items = {r.id : r \in select_published(recipe)},
                   !.contains = {r.id : r \in select_published(recipe)}]
    /\ UNCHANGED <<now, ticks, store_vars, uuid, held, not_null, inflight>>

\* A visibility rule that forgets the owner.
hidden_from_everyone(row, u) == row.published_at = None

\* not recipe.published and recipe.user_id != user.id
hidden_from(row, u) == ~published(row) /\ row.user_id # u

get_recipe(u, recipe_id) ==
    LET base == [NoResp EXCEPT !.op = "get_recipe", !.user = u, !.id = recipe_id]
        rows == {r \in recipe : r.id = recipe_id}
    IN
    /\ IF rows = {}
       THEN resp' = [base EXCEPT !.status = 404, !.detail = "Recipe not found"]
       ELSE IF \E r \in rows : hidden_from(r, u)
       THEN resp' = [base EXCEPT !.status = 403, !.detail = "Recipe not published"]
       ELSE resp' = [base EXCEPT !.status = 200, !.detail = "ok",
                        !.items = {recipe_id}, !.contains = {recipe_id}]
    /\ UNCHANGED <<now, ticks, store_vars, uuid, held, not_null, inflight>>

(***************************************************************************)
(* PATCH /recipes/{recipe_id}/publish (publish_recipe).                    *)
(***************************************************************************)
\* A publish that does not look at published_at.
publish_refused_to_others(row, u) ==
    IF row.user_id # u THEN "Only publish your own recipe" ELSE "ok"

\* The two refusals of publish_recipe, in the handler's order.
publish_refused(row, u) ==
    IF row.user_id # u THEN "Only publish your own recipe"
    ELSE IF published(row) THEN "Recipe is already published"
    ELSE "ok"

publish_recipe(u, recipe_id) ==
    LET base == [NoResp EXCEPT !.op = "publish_recipe", !.user = u, !.id = recipe_id]
        rows == {r \in recipe : r.id = recipe_id}
    IN
    /\ IF rows = {}
       THEN /\ resp' = [base EXCEPT !.status = 404, !.detail = "Recipe not found"]
            /\ UNCHANGED store_vars
       ELSE IF \E r \in rows : publish_refused(r, u) # "ok"
       THEN /\ resp' = [base EXCEPT !.status = 403,
                           !.detail = publish_refused(CHOOSE r \in rows : TRUE, u)]
            /\ UNCHANGED store_vars
       ELSE /\ Commit([Store EXCEPT !.recipe =
                          {IF r.id = recipe_id THEN [r EXCEPT !.published_at = now]
                           ELSE r : r \in @}])
            /\ resp' = [base EXCEPT !.status = 200, !.detail = "ok",
                           !.items = {recipe_id}]
    /\ UNCHANGED <<now, ticks, uuid, held, not_null, inflight>>

(***************************************************************************)
(* PATCH /recipes/{recipe_id} (patch_recipe).  The children are            *)
(* reconciled by position in the loaded collection: the object at          *)
(* position idx is overwritten in place (its index column is not           *)
(* touched), a position past the end of the collection gets a new          *)
(* object with index = idx.                                                *)
(***************************************************************************)
\* A reconciliation that leaves the name and description of a component it
\* found at the position as they were.
patch_components_as_loaded(s, rid, data) ==
    LET old == components_of(s, rid) IN
    [idx \in 1..Len(data.components) |->
        IF idx <= Len(old) THEN old[idx]
        ELSE RecipeComponent(rid, idx - 1, data.components[idx])]

\* The list `components` of the handler (api/recipes.py:201-240).
patch_components(s, rid, data) ==
    LET old == components_of(s, rid) IN
    [idx \in 1..Len(data.components) |->
        IF idx <= Len(old)
        THEN [old[idx] EXCEPT !.name = data.components[idx].name,
                              !.description = data.components[idx].description]
        ELSE RecipeComponent(rid, idx - 1, data.components[idx])]

\* The list `ingredients` of the handler, for each submitted component.
patch_component_ingredients(s, rid, data) ==
    LET old == components_of(s, rid) IN
    [idx \in 1..Len(data.components) |->
        LET component == patch_components(s, rid, data)[idx]
            loaded == IF idx <= Len(old)
                      THEN component_ingredients_of(s, rid, old[idx].index)
                      ELSE <<>>
            submitted == data.components[idx].ingredients
        IN  [i \in 1..Len(submitted) |->
                IF i <= Len(loaded)
                THEN [loaded[i] EXCEPT !.ingredient_name = submitted[i].name,
                                       !.value = submitted[i].value,
                                       !.unit = submitted[i].unit,
                                       !.hint = submitted[i].hint]
                ELSE ComponentIngredient(rid, component.index, i - 1, submitted[i])]]

\* The list `steps` of the handler (api/recipes.py:242-283).
patch_steps(s, rid, data) ==
    LET old == steps_of(s, rid) IN
    [idx \in 1..Len(data.steps) |->
        IF idx <= Len(old)
        THEN [old[idx] EXCEPT !.description = data.steps[idx].description,
                              !.picture_id = data.steps[idx].picture_id]
        ELSE RecipeStep(rid, idx - 1, data.steps[idx])]

\* The step ingredients after the loop.  The handler collects the list
\* `step_ingredients` but never assigns it to step.ingredients: the loaded
\* rows it overwrote in place are written back, the rows past the end of
\* the submitted list stay, and the objects it built new are dropped.
patch_step_ingredients(s, rid, data) ==
    LET old == steps_of(s, rid) IN
    [idx \in 1..Len(data.steps) |->
        LET loaded == IF idx <= Len(old)
                      THEN step_ingredients_of(s, rid, old[idx].index)
                      ELSE <<>>
            submitted == data.steps[idx].ingredients
        IN  [i \in 1..Len(loaded) |->
                IF i <= Len(submitted)
                THEN [loaded[i] EXCEPT !.ingredient_name = submitted[i].name,
                                       !.value = submitted[i].value,
                                       !.unit = submitted[i].unit,
                                       !.hint = submitted[i].hint]
                ELSE loaded[i]]]

\* The children past the end of the submitted list: the assignment of the
\* new list to recipe.components / recipe.steps orphans them, and
\* delete-orphan deletes them.
removed_components(s, rid, data) ==
    LET old == components_of(s, rid) IN
    {old[i] : i \in (Len(data.components) + 1)..Len(old)}

removed_steps(s, rid, data) ==
    LET old == steps_of(s, rid) IN
    {old[i] : i \in (Len(data.steps) + 1)..Len(old)}

\* The ingredient rows the handler loaded: those of the children it kept.
loaded_component_ingredients(s, rid, data) ==
    LET old == components_of(s, rid) IN
    {g \in s.component_ingredient :
        /\ g.recipe_id = rid
        /\ \E i \in 1..Len(data.components) :
              i <= Len(old) /\ g.recipe_component_index = old[i].index}

loaded_step_ingredients(s, rid, data) ==
    LET old == steps_of(s, rid) IN
    {g \in s.step_ingredient :
        /\ g.recipe_id = rid
        /\ \E i \in 1..Len(data.steps) :
              i <= Len(old) /\ g.recipe_step_index = old[i].index}

\* cascade="all, delete-orphan" with ON DELETE CASCADE
\* (db/models.py:183-189, 218-222, 247-253, 278-282): the ingredient rows
\* of a deleted component or step go with it.
cascade_component_ingredients(rows, removed) ==
    {g \in rows : ~\E c \in removed :
        c.recipe_id = g.recipe_id /\ c.index = g.recipe_component_index}

\* A store without the cascade.
keep_step_ingredients(rows, removed) == rows

cascade_step_ingredients(rows, removed) ==
    {g \in rows : ~\E c \in removed :
        c.recipe_id = g.recipe_id /\ c.index = g.recipe_step_index}

\* delete-orphan on Recipe.pictures (db/models.py:361-366): a picture
\* taken out of the collection is deleted.
orphaned_pictures(s, rid, data) == pictures_of(s, rid) \ Range(data.picture_ids)

\* The foreign keys to picture.id without ON DELETE (recipe.cover_id,
\* recipe_step.picture_id, recipe_book.cover_id) refuse the DELETE of a
\* picture that is still referenced.
picture_delete_ok(s, gone) ==
    /\ \A r \in s.recipe : r.cover_id \notin gone
    /\ \A st \in s.recipe_step : st.picture_id \notin gone
    /\ \A b \in s.recipe_book : b.cover_id \notin gone

\* A patch that makes the recipe a draft again.
patch_row_as_draft(r, data) ==
    [r EXCEPT !.name = data.name, !.description = data.description,
              !.tags = data.tags, !.number = data.number, !.unit = data.unit,
              !.cover_id = data.cover_id, !.updated_at = now,
              !.published_at = None]

\* The scalar fields of the recipe row (api/recipes.py:179-188, 293).
patch_row(r, data) ==
    [r EXCEPT !.name = data.name, !.description = data.description,
              !.tags = data.tags, !.number = data.number, !.unit = data.unit,
              !.cover_id = data.cover_id, !.updated_at = now]

\* The session's store at db.commit() of patch_recipe, before the flush
\* checks: `found` is the picture table after the Picture.find calls.
patch_recipe_store(s, found, u, rid, data) ==
    LET comps == patch_components(s, rid, data)
        comp_ing == Concat(patch_component_ingredients(s, rid, data))
        steps == patch_steps(s, rid, data)
        step_ing == Concat(patch_step_ingredients(s, rid, data))
        gone == orphaned_pictures(s, rid, data)
    IN  [s EXCEPT
            !.picture = {p \in found : p.id \notin gone},
            !.ingredient = @ \cup
                Range(new_ingredients(s.ingredient, <<>>, ingredient_calls(data))),
            !.tool = @ \cup Range(new_tools(s.tool, <<>>, data.tools)),
            !.recipe = {IF r.id = rid THEN patch_row(r, data) ELSE r : r \in @},
            !.recipe_pictures =
                {a \in @ : a.recipe_id # rid /\ a.picture_id \notin gone}
                \cup {[recipe_id |-> rid, picture_id |-> pid] :
                         pid \in Range(data.picture_ids)},
            !.recipe_component = {c \in @ : c.recipe_id # rid} \cup Range(comps),
            !.component_ingredient =
                cascade_component_ingredients(
                    (@ \ loaded_component_ingredients(s, rid, data))
                    \cup Range(comp_ing),
                    removed_components(s, rid, data)),
            !.recipe_step = {c \in @ : c.recipe_id # rid} \cup Range(steps),
            !.step_ingredient =
                cascade_step_ingredients(
                    (@ \ loaded_step_ingredients(s, rid, data))
                    \cup Range(step_ing),
                    removed_steps(s, rid, data)),
            !.recipe_tool = {t \in @ : t.recipe_id # rid}
                            \cup Range(recipe_tools(rid, data))]

\* Whether the flush of patch_recipe goes through.
patch_recipe_flush_ok(s, after, rid, data) ==
    /\ ingredient_insert_ok(s.ingredient,
            new_ingredients(s.ingredient, <<>>, ingredient_calls(data)))
    /\ tool_insert_ok(s.tool, new_tools(s.tool, <<>>, data.tools))
    /\ PksDistinct(recipe_tools(rid, data), tool_pk)
    /\ Distinct(data.picture_ids)
    /\ PksDistinct(patch_components(s, rid, data), component_pk)
    /\ PksDistinct(patch_steps(s, rid, data), component_pk)
    /\ \A idx \in 1..Len(data.components) :
          PksDistinct(patch_component_ingredients(s, rid, data)[idx], ingredient_pk)
    /\ \A idx \in 1..Len(data.steps) :
          PksDistinct(patch_step_ingredients(s, rid, data)[idx], ingredient_pk)
    /\ picture_delete_ok(after, orphaned_pictures(s, rid, data))

\* A patch that is open to whoever may read the item.
not_reader(row, u) == hidden_from(row, u)

\* recipe.user_id != user.id, book.user_id != user.id
not_owner(row, u) == row.user_id # u

\* The scalar fields the handler assigns before it resolves a picture
\* (api/recipes.py:179-183).
patch_fields(r, data) ==
    [r EXCEPT !.name = data.name, !.description = data.description,
              !.tags = data.tags, !.number = data.number, !.unit = data.unit]

\* The session of patch_recipe when a Picture.find raises: `first` is the
\* outcome of the lookups of the cover and of picture_ids, `found` that of
\* all lookups.  When a step picture is refused the cover, the pictures
\* and the components have been assigned already.
patch_recipe_raised(s, first, found, u, rid, data) ==
    LET full == patch_recipe_store(s, found.picture, u, rid, data)
        fields == [s EXCEPT
                     !.picture = found.picture,
                     !.recipe = {IF r.id = rid THEN patch_fields(r, data) ELSE r :
                                    r \in @}]
    IN  IF first.status # 200 THEN fields
        ELSE [fields EXCEPT
                !.ingredient = @ \cup Range(new_ingredients(s.ingredient, <<>>,
                                    ingredient_calls_made(first, data, u))),
                !.recipe = {IF r.id = rid
                            THEN [patch_fields(r, data) EXCEPT
                                     !.cover_id = data.cover_id]
                            ELSE r : r \in s.recipe},
                !.recipe_pictures = full.recipe_pictures,
                !.recipe_component = full.recipe_component,
                !.component_ingredient = full.component_ingredient]

patch_recipe(u, recipe_id, data) ==
    LET base == [NoResp EXCEPT !.op = "patch_recipe", !.user = u, !.id = recipe_id,
                    !.data = data,
                    !.before = step_ingredient_counts(Store, recipe_id)]
        rows == {r \in recipe : r.id = recipe_id}
        first_ids == cover_ids(data)
                     \o SelectSeq(data.picture_ids,
                            LAMBDA pid : pid \notin pictures_of(Store, recipe_id))
        first == find_pictures(picture, first_ids, u)
        found == find_pictures(picture, first_ids \o step_picture_ids(data), u)
        after == patch_recipe_store(Store, found.picture, u, recipe_id, data)
    IN
    /\ IF rows = {}
       THEN /\ resp' = [base EXCEPT !.status = 404, !.detail = "Recipe not found"]
            /\ UNCHANGED store_vars
       ELSE IF \E r \in rows : not_owner(r, u)
       THEN /\ resp' = [base EXCEPT !.status = 403,
                           !.detail = "Only edit your own recipe"]
            /\ UNCHANGED store_vars
       ELSE IF found.status # 200
       THEN /\ resp' = [base EXCEPT !.status = found.status, !.detail = found.detail]
            /\ Commit(rollback(Store,
                   patch_recipe_raised(Store, first, found, u, recipe_id, data)))
       ELSE IF ~patch_recipe_flush_ok(Store, after, recipe_id, data)
       THEN /\ resp' = [base EXCEPT !.status = 500, !.detail = "IntegrityError"]
            /\ Commit(rollback(Store, after))
       ELSE /\ Commit(after)
            /\ resp' = [base EXCEPT !.status = 200, !.detail = "ok",
                           !.items = {recipe_id}]
    /\ UNCHANGED <<now, ticks, uuid, held, not_null, inflight>>

(***************************************************************************)
(* Recipe books (api/recipe_books.py).                                     *)
(***************************************************************************)
\* A check that asks only whether the recipe exists.
member_exists(s, u, recipe_id) ==
    IF \A r \in s.recipe : r.id # recipe_id
    THEN [status |-> 404, detail |-> "Recipe not found"]
    ELSE [status |-> 200, detail |-> "ok"]

\* The check of one member recipe: 404, 403 or 200.
member_check(s, u, recipe_id) ==
    LET rows == {r \in s.recipe : r.id = recipe_id} IN
    IF rows = {} THEN [status |-> 404, detail |-> "Recipe not found"]
    ELSE IF \E r \in rows : hidden_from(r, u)
    THEN [status |-> 403, detail |-> "Recipe not published"]
    ELSE [status |-> 200, detail |-> "ok"]

\* A loop that checks the first submitted member only.
member_checks_head(s, u, ids) ==
    IF ids = <<>> THEN [status |-> 200, detail |-> "ok"]
    ELSE member_check(s, u, Head(ids))

RECURSIVE member_checks(_, _, _)
member_checks(s, u, ids) ==
    IF ids = <<>> THEN [status |-> 200, detail |-> "ok"]
    ELSE LET r == member_check(s, u, Head(ids))
         IN  IF r.status # 200 THEN r ELSE member_checks(s, u, Tail(ids))

recipes_of(s, book_id) ==
    {a.recipe_id : a \in {x \in s.recipe_book_recipes : x.recipe_book_id = book_id}}

post_recipe_book(u, data) ==
    LET base == [NoResp EXCEPT !.op = "post_recipe_book", !.user = u, !.data = data]
        found == find_pictures(picture, cover_ids(data), u)
        members == member_checks(Store, u, data.recipes)
        bid == Cardinality(recipe_book) + 1
        row == [id |-> bid, user_id |-> u, created_at |-> now,
                name |-> data.name, cover_id |-> data.cover_id, updated_at |-> now,
                published_at |-> None, tags |-> data.tags]
        \* the session when the handler raises: the flag of the cover
        raised == [Store EXCEPT !.picture = found.picture]
        \* the session at db.commit()
        after == [Store EXCEPT
                    !.picture = found.picture,
                    !.recipe_book = @ \cup {row},
                    !.recipe_book_recipes = @ \cup
                        {[recipe_id |-> rid, recipe_book_id |-> bid] :
                            rid \in Range(data.recipes)}]
    IN
    /\ IF found.status # 200
       THEN /\ resp' = [base EXCEPT !.status = found.status, !.detail = found.detail]
            /\ Commit(rollback(Store, raised))
       ELSE IF members.status # 200
       THEN /\ resp' = [base EXCEPT !.status = members.status,
                           !.detail = members.detail]
            /\ Commit(rollback(Store, raised))
       ELSE /\ Cardinality(recipe_book) < MaxBooks
            /\ IF ~Distinct(data.recipes)
               THEN /\ resp' = [base EXCEPT !.status = 500, !.detail = "IntegrityError"]
                    /\ Commit(rollback(Store, after))
               ELSE /\ Commit(after)
                    /\ resp' = [base EXCEPT !.status = 200, !.detail = "ok",
                                   !.id = bid, !.items = {bid}]
    /\ UNCHANGED <<now, ticks, uuid, held, not_null, inflight>>

get_recipe_books(u) ==
    /\ resp' = [NoResp EXCEPT !.op = "get_recipe_books", !.user = u,
                   !.status = 200, !.detail = "ok",
                   !.items = {b.id : b \in select_published(recipe_book)},
                   !.contains = UNION {recipes_of(Store, b.id) :
                                          b \in select_published(recipe_book)}]
    /\ UNCHANGED <<now, ticks, store_vars, uuid, held, not_null, inflight>>

\* The book is returned with book.recipes, its member recipes in full
\* (api/schemas.py:152-156).
get_recipe_book(u, book_id) ==
    LET base == [NoResp EXCEPT !.op = "get_recipe_book", !.user = u, !.id = book_id]
        rows == {b \in recipe_book : b.id = book_id}
    IN
    /\ IF rows = {}
       THEN resp' = [base EXCEPT !.status = 404, !.detail = "Recipe book not found"]
       ELSE IF \E b \in rows : hidden_from(b, u)
       THEN resp' = [base EXCEPT !.status = 403,
                        !.detail = "Recipe book not published"]
       ELSE resp' = [base EXCEPT !.status = 200, !.detail = "ok",
                        !.items = {book_id},
                        !.contains = recipes_of(Store, book_id)]
    /\ UNCHANGED <<now, ticks, store_vars, uuid, held, not_null, inflight>>

\* patch_recipe_book checks the submitted recipes that are not yet members
\* and collects the list `recipes`, which it never assigns to book.recipes.
patch_recipe_book(u, book_id, data) ==
    LET base == [NoResp EXCEPT !.op = "patch_recipe_book", !.user = u, !.id = book_id,
                    !.data = data]
        rows == {b \in recipe_book : b.id = book_id}
        found == find_pictures(picture, cover_ids(data), u)
        members == member_checks(Store, u,
                      SelectSeq(data.recipes,
                                LAMBDA rid : rid \notin recipes_of(Store, book_id)))
        \* the session when the handler raises: name and tags assigned, the
        \* cover flagged and assigned if it was found
        raised == [Store EXCEPT
                     !.picture = found.picture,
                     !.recipe_book =
                         {IF b.id = book_id
                          THEN [b EXCEPT !.name = data.name, !.tags = data.tags,
                                         !.cover_id = IF found.status = 200
                                                      THEN data.cover_id ELSE @]
                          ELSE b : b \in @}]
    IN
    /\ IF rows = {}
       THEN /\ resp' = [base EXCEPT !.status = 404, !.detail = "Recipe book not found"]
            /\ UNCHANGED store_vars
       ELSE IF \E b \in rows : not_owner(b, u)
       THEN /\ resp' = [base EXCEPT !.status = 403,
                           !.detail = "Only edit your own recipe books"]
            /\ UNCHANGED store_vars
       ELSE IF found.status # 200
       THEN /\ resp' = [base EXCEPT !.status = found.status, !.detail = found.detail]
            /\ Commit(rollback(Store, raised))
       ELSE IF members.status # 200
       THEN /\ resp' = [base EXCEPT !.status = members.status,
                           !.detail = members.detail]
            /\ Commit(rollback(Store, raised))
       ELSE /\ Commit([Store EXCEPT
                  !.picture = found.picture,
                  !.recipe_book =
                      {IF b.id = book_id
                       THEN [b EXCEPT !.name = data.name, !.tags = data.tags,
                                      !.cover_id = data.cover_id,
                                      !.updated_at = now]
                       ELSE b : b \in @}])
            /\ resp' = [base EXCEPT !.status = 200, !.detail = "ok",
                           !.items = {book_id}]
    /\ UNCHANGED <<now, ticks, uuid, held, not_null, inflight>>

book_publish_refused(row, u) ==
    IF row.user_id # u THEN "Only publish your own recipe book"
    ELSE IF published(row) THEN "Recipe book is already published"
    ELSE "ok"

publish_recipe_book(u, book_id) ==
    LET base == [NoResp EXCEPT !.op = "publish_recipe_book", !.user = u,
                    !.id = book_id]
        rows == {b \in recipe_book : b.id = book_id}
    IN
    /\ IF rows = {}
       THEN /\ resp' = [base EXCEPT !.status = 404, !.detail = "Recipe book not found"]
            /\ UNCHANGED store_vars
       ELSE IF \E b \in rows : book_publish_refused(b, u) # "ok"
       THEN /\ resp' = [base EXCEPT !.status = 403,
                           !.detail = book_publish_refused(CHOOSE b \in rows : TRUE, u)]
            /\ UNCHANGED store_vars
       ELSE /\ Commit([Store EXCEPT !.recipe_book =
                          {IF b.id = book_id THEN [b EXCEPT !.published_at = now]
                           ELSE b : b \in @}])
            /\ resp' = [base EXCEPT !.status = 200, !.detail = "ok",
                           !.items = {book_id}]
    /\ UNCHANGED <<now, ticks, uuid, held, not_null, inflight>>

(***************************************************************************)
(* Requests handled at the same time.  The handlers are plain `def`        *)
(* functions, which FastAPI runs in a thread pool, each request with a     *)
(* session and a transaction of its own (main.py:20-28).  A handler reads  *)
(* through db.get, which sees the rows committed when its transaction      *)
(* began, and writes at db.commit(): the flush sends the INSERTs and       *)
(* UPDATEs, which the database checks against the rows committed by then,  *)
(* and the COMMIT makes them visible.  A request is two steps: its reads   *)
(* up to db.commit(), and db.commit() itself.                              *)
(***************************************************************************)
Requests == 1..MaxRequests

Idle ==
    [user |-> NULL, data |-> NoData, id |-> None, status |-> None, op |-> "none",
     new_tool |-> <<>>, new_ing |-> <<>>, pc |-> "idle", stamp |-> None]

\* post_recipe up to db.commit() (api/recipes.py:42-129): the lookups of
\* Picture.find and find_or_create.  A refused picture ends the request.
post_recipe_reads(q, u, data) ==
    LET base == [NoResp EXCEPT !.op = "post_recipe", !.user = u, !.data = data]
        found == find_pictures(picture,
                    cover_ids(data) \o data.picture_ids \o step_picture_ids(data), u)
    IN
    /\ inflight[q].pc # "commit"
    /\ IF found.status # 200
       THEN /\ resp' = [base EXCEPT !.status = found.status, !.detail = found.detail]
            /\ inflight' = [inflight EXCEPT ![q] =
                   [Idle EXCEPT !.pc = "done", !.op = "post_recipe", !.user = u,
                                !.data = data, !.status = found.status]]
       ELSE /\ inflight' = [inflight EXCEPT ![q] =
                   [Idle EXCEPT
                       !.pc = "commit", !.op = "post_recipe", !.user = u,
                       !.data = data,
                       !.new_ing = new_ingredients(ingredient, <<>>,
                                                   ingredient_calls(data)),
                       !.new_tool = new_tools(tool, <<>>, data.tools)]]
            /\ UNCHANGED resp
    /\ UNCHANGED <<now, ticks, store_vars, uuid, held, not_null>>

\* db.commit() of post_recipe (api/recipes.py:131): the pending catalog
\* rows, the recipe and its children are inserted; a primary key that is
\* in the table by now fails the flush and the transaction is rolled back.
post_recipe_commit(q) ==
    LET r == inflight[q]
        data == r.data
        base == [NoResp EXCEPT !.op = "post_recipe", !.user = r.user, !.data = data]
        rid == Cardinality(recipe) + 1
        tools == recipe_tools(rid, data)
        ids == Range(cover_ids(data) \o data.picture_ids \o step_picture_ids(data))
        row == [id |-> rid, user_id |-> r.user, created_at |-> now,
                name |-> data.name, unit |-> data.unit, cover_id |-> data.cover_id,
                description |-> data.description, updated_at |-> now, published_at |-> None,
                rating |-> 0, tags |-> data.tags,
                number |-> data.number]
        flushed ==
            /\ ingredient_insert_ok(ingredient, r.new_ing)
            /\ tool_insert_ok(tool, r.new_tool)
            /\ PksDistinct(tools, tool_pk)
            /\ Distinct(data.picture_ids)
        after ==
            [Store EXCEPT
                !.picture = {IF p.id \in ids THEN [p EXCEPT !.used = TRUE] ELSE p :
                                p \in @},
                !.ingredient = @ \cup Range(r.new_ing),
                !.tool = @ \cup Range(r.new_tool),
                !.recipe = @ \cup {row},
                !.recipe_pictures = @ \cup
                    {[recipe_id |-> rid, picture_id |-> pid] :
                        pid \in Range(data.picture_ids)},
                !.recipe_component = @ \cup Range(post_components(rid, data)),
                !.component_ingredient = @ \cup
                    Range(Concat(post_component_ingredients(rid, data))),
                !.recipe_step = @ \cup Range(post_steps(rid, data)),
                !.step_ingredient = @ \cup
                    Range(Concat(post_step_ingredients(rid, data))),
                !.recipe_tool = @ \cup Range(tools)]
    IN
    /\ r.pc = "commit" /\ r.op = "post_recipe"
    /\ Cardinality(recipe) < MaxRecipes
    /\ IF ~flushed
       THEN /\ resp' = [base EXCEPT !.status = 500, !.detail = "IntegrityError"]
            /\ Commit(rollback(Store, after))
            /\ inflight' = [inflight EXCEPT ![q].pc = "done", ![q].status = 500]
       ELSE /\ Commit(after)
            /\ resp' = [base EXCEPT !.status = 201, !.detail = "ok",
                           !.id = rid, !.items = {rid}]
            /\ inflight' = [inflight EXCEPT ![q].pc = "done", ![q].status = 201,
                                            ![q].id = rid]
    /\ UNCHANGED <<now, ticks, uuid, held, not_null>>

\* publish_recipe up to db.commit() (api/recipes.py:305-328): the row is
\* read, the checks are made on what was read, and published_at is
\* assigned in the session.
publish_recipe_reads(q, u, recipe_id) ==
    LET base == [NoResp EXCEPT !.op = "publish_recipe", !.user = u, !.id = recipe_id]
        rows == {r \in recipe : r.id = recipe_id}
        refused == rows = {} \/ \E r \in rows : publish_refused(r, u) # "ok"
        ended == [Idle EXCEPT !.pc = "done", !.op = "publish_recipe", !.user = u,
                              !.id = recipe_id]
    IN
    /\ inflight[q].pc # "commit"
    /\ IF rows = {}
       THEN resp' = [base EXCEPT !.status = 404, !.detail = "Recipe not found"]
       ELSE IF refused
       THEN resp' = [base EXCEPT !.status = 403,
                        !.detail = publish_refused(CHOOSE r \in rows : TRUE, u)]
       ELSE UNCHANGED resp
    /\ inflight' = [inflight EXCEPT ![q] =
           IF rows = {} THEN [ended EXCEPT !.status = 404]
           ELSE IF refused THEN [ended EXCEPT !.status = 403]
           ELSE [ended EXCEPT !.pc = "commit", !.stamp = now]]
    /\ UNCHANGED <<now, ticks, store_vars, uuid, held, not_null>>

\* db.commit() of publish_recipe (api/recipes.py:329): UPDATE recipe SET
\* published_at = ... WHERE id = ..., whatever the row holds by now.
publish_recipe_commit(q) ==
    LET r == inflight[q]
        base == [NoResp EXCEPT !.op = "publish_recipe", !.user = r.user, !.id = r.id]
    IN
    /\ r.pc = "commit" /\ r.op = "publish_recipe"
    /\ Commit([Store EXCEPT !.recipe =
                  {IF x.id = r.id THEN [x EXCEPT !.published_at = r.stamp]
                   ELSE x : x \in @}])
    /\ resp' = [base EXCEPT !.status = 200, !.detail = "ok", !.items = {r.id}]
    /\ inflight' = [inflight EXCEPT ![q].pc = "done", ![q].status = 200]
    /\ UNCHANGED <<now, ticks, uuid, held, not_null>>

\* The same two steps of the publish handler of recipe books
\* (api/recipe_books.py:152-179).
publish_recipe_book_reads(q, u, book_id) ==
    LET base == [NoResp EXCEPT !.op = "publish_recipe_book", !.user = u,
                    !.id = book_id]
        rows == {b \in recipe_book : b.id = book_id}
        refused == rows = {} \/ \E b \in rows : book_publish_refused(b, u) # "ok"
        ended == [Idle EXCEPT !.pc = "done", !.op = "publish_recipe_book",
                              !.user = u, !.id = book_id]
    IN
    /\ inflight[q].pc # "commit"
    /\ IF rows = {}
       THEN resp' = [base EXCEPT !.status = 404, !.detail = "Recipe book not found"]
       ELSE IF refused
       THEN resp' = [base EXCEPT !.status = 403,
                        !.detail = book_publish_refused(CHOOSE b \in rows : TRUE, u)]
       ELSE UNCHANGED resp
    /\ inflight' = [inflight EXCEPT ![q] =
           IF rows = {} THEN [ended EXCEPT !.status = 404]
           ELSE IF refused THEN [ended EXCEPT !.status = 403]
           ELSE [ended EXCEPT !.pc = "commit", !.stamp = now]]
    /\ UNCHANGED <<now, ticks, store_vars, uuid, held, not_null>>

publish_recipe_book_commit(q) ==
    LET r == inflight[q]
        base == [NoResp EXCEPT !.op = "publish_recipe_book", !.user = r.user,
                    !.id = r.id]
    IN
    /\ r.pc = "commit" /\ r.op = "publish_recipe_book"
    /\ Commit([Store EXCEPT !.recipe_book =
                  {IF x.id = r.id THEN [x EXCEPT !.published_at = r.stamp]
                   ELSE x : x \in @}])
    /\ resp' = [base EXCEPT !.status = 200, !.detail = "ok", !.items = {r.id}]
    /\ inflight' = [inflight EXCEPT ![q].pc = "done", ![q].status = 200]
    /\ UNCHANGED <<now, ticks, uuid, held, not_null>>

(***************************************************************************)
(* Permissions (auth.py:43-62, 163-198) and the user endpoints             *)
(* (api/users.py).  A bitmask is a natural number; & and | are computed    *)
(* bit by bit.                                                             *)
(***************************************************************************)
RECURSIVE BitAnd(_, _)
BitAnd(a, b) ==
    IF a = 0 \/ b = 0 THEN 0
    ELSE (a % 2) * (b % 2) + 2 * BitAnd(a \div 2, b \div 2)

RECURSIVE BitOr(_, _)
BitOr(a, b) ==
    IF a = 0 THEN b
    ELSE IF b = 0 THEN a
    ELSE (IF a % 2 = 1 \/ b % 2 = 1 THEN 1 ELSE 0) + 2 * BitOr(a \div 2, b \div 2)

permission_bit_map == [p \in {"admin"} |-> ADMIN_BIT]

RECURSIVE create_permission_bitmask(_)
create_permission_bitmask(permissions) ==
    IF permissions = {} THEN 0
    ELSE LET p == CHOOSE x \in permissions : TRUE
         IN  BitOr(permission_bit_map[p], create_permission_bitmask(permissions \ {p}))

create_permission_list(scopes) ==
    {p \in DOMAIN permission_bit_map :
        BitAnd(permission_bit_map[p], scopes) = permission_bit_map[p]}

\* A check that compares the two bitmasks as numbers.
enough_permissions_by_size(security_permissions, token_permissions) ==
    token_permissions >= security_permissions

\* security_permissions & token_permissions == security_permissions
enough_permissions(security_permissions, token_permissions) ==
    BitAnd(security_permissions, token_permissions) = security_permissions

\* get_access_token.  The tokens this service signs are access tokens
\* {sub, scopes, exp} and refresh tokens {sub, jti, exp}: a token with a
\* jti has no scopes, and AccessToken.model_validate raises on it.
get_access_token(token) ==
    LET dec == get_token_data(token) IN
    IF dec.status # 200 THEN dec
    ELSE IF token.sub = NULL THEN [status |-> 403, detail |-> "Invalid token"]
    ELSE IF token.jti # None THEN [status |-> 500, detail |-> "ValidationError"]
    ELSE [status |-> 200, detail |-> "ok"]

\* get_current_user, for the scopes the endpoint declares.
get_current_user(security_scopes, token) ==
    LET dep == get_access_token(token) IN
    IF dep.status # 200 THEN dep
    ELSE IF /\ security_scopes # {}
            /\ ~enough_permissions(create_permission_bitmask(security_scopes),
                                   token.scopes)
    THEN [status |-> 401, detail |-> "Not enough permissions"]
    ELSE [status |-> 200, detail |-> "ok"]

\* The scopes of Security(get_current_user, scopes=[...]) of each endpoint.
security_scopes_of == [get_users |-> {"admin"}, get_me |-> {}]

get_users(token) ==
    LET dep == get_current_user(security_scopes_of.get_users, token)
        base == [NoResp EXCEPT !.op = "get_users", !.user = token.sub,
                    !.bearer = token]
    IN
    /\ IF dep.status # 200
       THEN resp' = [base EXCEPT !.status = dep.status, !.detail = dep.detail]
       ELSE resp' = [base EXCEPT !.status = 200, !.detail = "ok"]
    /\ UNCHANGED <<now, ticks, store_vars, uuid, held, not_null, inflight>>

get_me(token) ==
    LET dep == get_current_user(security_scopes_of.get_me, token)
        base == [NoResp EXCEPT !.op = "get_me", !.user = token.sub,
                    !.bearer = token]
    IN
    /\ IF dep.status # 200
       THEN resp' = [base EXCEPT !.status = dep.status, !.detail = dep.detail]
       ELSE IF token.sub \notin Users
       THEN resp' = [base EXCEPT !.status = 404, !.detail = "User not found"]
       ELSE resp' = [base EXCEPT !.status = 200, !.detail = "ok"]
    /\ UNCHANGED <<now, ticks, store_vars, uuid, held, not_null, inflight>>

(***************************************************************************)
(* The initial store.  The store is durable and outlives the process: it   *)
(* starts with the seeded users, and with refresh-token rows and signed    *)
(* tokens of earlier sessions, some of whose rows are gone.                *)
(***************************************************************************)
SeedTokens ==
    {[kind |-> "jwt", sub |-> "u1", jti |-> 101, exp |-> AccessTokenTTL, scopes |-> None],
     [kind |-> "jwt", sub |-> "u1", jti |-> 102, exp |-> AccessTokenTTL, scopes |-> None],
     [kind |-> "jwt", sub |-> "u2", jti |-> 103, exp |-> AccessTokenTTL, scopes |-> None]}

SeedRow(t) ==
    [id |-> t.jti, user_id |-> t.sub, created_at |-> None, expires_at |-> t.exp]

InitCommon ==
    /\ now = 1
    /\ ticks = 0
    /\ picture = {}
    /\ ingredient = {}
    /\ tool = {}
    /\ recipe = {}
    /\ recipe_pictures = {}
    /\ recipe_component = {}
    /\ component_ingredient = {}
    /\ recipe_step = {}
    /\ step_ingredient = {}
    /\ recipe_tool = {}
    /\ recipe_book = {}
    /\ recipe_book_recipes = {}
    /\ uuid = 0
    /\ inflight = [q \in Requests |-> Idle]
    /\ resp = NoResp

\* No refresh token has been issued, and the schema is the declared one.
InitNoTokens ==
    /\ InitCommon
    /\ held = {}
    /\ refresh_token = {}
    /\ not_null = TRUE

InitAuth ==
    /\ InitCommon
    /\ held = SeedTokens
    /\ \E ts \in SUBSET SeedTokens : refresh_token = {SeedRow(t) : t \in ts}
    /\ not_null \in BOOLEAN

Passwords == {"pw1", "pw2"}
Usernames == Users \cup {"nobody"}

NextAuth ==
    \/ \E d \in {1, AccessTokenTTL} : Tick(d)
    \/ \E un \in Usernames, pw \in Passwords : login(un, pw)
    \/ \E c \in CookieJars : refresh(c)

SpecAuth == InitAuth /\ [][NextAuth]_vars

(***************************************************************************)
(* Request bodies.                                                         *)
(***************************************************************************)
SeqsUpTo(S, n) == UNION {[1..k -> S] : k \in 0..n}

RecipeIds == 1..MaxRecipes
BookIds == 1..MaxBooks
PictureIds == 1..MaxUuid

\* A recipe without children, pictures or tools.
PlainRecipe(name) ==
    [name |-> name, unit |-> "SERVING", tools |-> <<>>, components |-> <<>>,
     steps |-> <<>>, cover_id |-> None, description |-> "d",
     picture_ids |-> <<>>, tags |-> <<>>, number |-> 1]

PlainRecipes == {PlainRecipe(n) : n \in {"soup", "cake"}}

PlainBooks ==
    [name : {"book"}, cover_id : {None}, tags : {<<>>},
     recipes : {ids \in SeqsUpTo(RecipeIds, 2) : Distinct(ids)}]

\* Submitted ingredients, steps, components and tools.
Flour == [name |-> "flour", unit |-> "g", value |-> 1, hint |-> ""]
FlourKg == [name |-> "flour", unit |-> "kg", value |-> 3, hint |-> ""]
Salt == [name |-> "salt", unit |-> "kg", value |-> 2, hint |-> "pinch"]

NewStep(picture_id, ingredients) ==
    [picture_id |-> picture_id, ingredients |-> ingredients, description |-> "mix"]

NewComponent(ingredients) ==
    [name |-> "dough", ingredients |-> ingredients, description |-> ""]

NewTool(name) == [tool_name |-> name, hint |-> ""]

(***************************************************************************)
(* Spec: the life of recipes and recipe books (create, patch, publish,     *)
(* read) under two users.                                                  *)
(***************************************************************************)
Init == InitNoTokens

Next ==
    \/ \E u \in Users, data \in PlainRecipes : post_recipe(u, data)
    \/ \E u \in Users, rid \in RecipeIds, data \in PlainRecipes :
          patch_recipe(u, rid, data)
    \/ \E u \in Users, rid \in RecipeIds : publish_recipe(u, rid)
    \/ \E u \in Users, rid \in RecipeIds : get_recipe(u, rid)
    \/ get_recipes
    \/ \E u \in Users, data \in PlainBooks : post_recipe_book(u, data)
    \/ \E u \in Users, bid \in BookIds, data \in PlainBooks :
          patch_recipe_book(u, bid, data)
    \/ \E u \in Users, bid \in BookIds : publish_recipe_book(u, bid)
    \/ \E u \in Users, bid \in BookIds : get_recipe_book(u, bid)
    \/ \E u \in Users : get_recipe_books(u)

Spec == Init /\ [][Next]_vars

(***************************************************************************)
(* SpecClock: one recipe and one recipe book, with the clock running, so   *)
(* that created_at, updated_at and published_at are different instants.    *)
(***************************************************************************)
SmallBooks == {d \in PlainBooks : d.recipes \in {<<>>, <<1>>}}

NextClock ==
    \/ Tick(1)
    \/ \E u \in Users :
          recipe = {} /\ post_recipe(u, PlainRecipe("soup"))
    \/ \E u \in Users, rid \in RecipeIds :
          patch_recipe(u, rid, PlainRecipe("cake"))
    \/ \E u \in Users, rid \in RecipeIds : publish_recipe(u, rid)
    \/ \E u \in Users, data \in SmallBooks :
          recipe_book = {} /\ post_recipe_book(u, data)
    \/ \E u \in Users, bid \in BookIds, data \in SmallBooks :
          patch_recipe_book(u, bid, data)
    \/ \E u \in Users, bid \in BookIds : publish_recipe_book(u, bid)

SpecClock == Init /\ [][NextClock]_vars

(***************************************************************************)
(* SpecMedia: pictures, uploaded and fetched by two users and referred to  *)
(* as cover, in the picture list and as step picture of one recipe.        *)
(***************************************************************************)
MediaRecipes ==
    {[PlainRecipe("soup") EXCEPT !.cover_id = c, !.picture_ids = ps] :
        c \in {None} \cup PictureIds, ps \in SeqsUpTo(PictureIds, 1)}
    \cup
    {[PlainRecipe("soup") EXCEPT !.steps = <<NewStep(pid, <<>>)>>] :
        pid \in {None} \cup PictureIds}

\* One file that is accepted, and one for each way of being refused.
MediaFiles ==
    {f \in Files :
        /\ f.image /\ f.content_type \in {"image/png", "text/plain"}
        /\ \/ f.filename = "a" /\ f.ext = "png" /\ f.content_type = "image/png"
           \/ f.filename = "" /\ f.ext = "png" /\ f.content_type = "image/png"
                               /\ f.size = 1
           \/ f.filename = "a" /\ f.ext = "txt" /\ f.size = 1}

\* Books with and without a cover.
MediaBooks ==
    [name : {"book"}, cover_id : {None} \cup PictureIds, tags : {<<>>},
     recipes : {<<>>}]

NextMedia ==
    \/ \E u \in Users, file \in MediaFiles : upload_picture(u, file)
    \/ \E u \in Users, pid \in PictureIds : get_picture(u, pid)
    \/ \E u \in Users, data \in MediaRecipes :
          recipe = {} /\ post_recipe(u, data)
    \/ \E u \in Users, rid \in RecipeIds, data \in MediaRecipes :
          patch_recipe(u, rid, data)
    \/ \E u \in Users, rid \in RecipeIds : get_recipe(u, rid)
    \/ \E u \in Users, data \in MediaBooks : post_recipe_book(u, data)
    \/ \E u \in Users, bid \in BookIds, data \in MediaBooks :
          patch_recipe_book(u, bid, data)

SpecMedia == Init /\ [][NextMedia]_vars

(***************************************************************************)
(* SpecCatalog: recipes whose components and tools name catalog entries,   *)
(* new ones and known ones, the same name once or twice in a request.      *)
(***************************************************************************)
CatalogRecipes ==
    {[PlainRecipe("soup") EXCEPT !.components = cs] :
        cs \in SeqsUpTo({NewComponent(<<g>>) : g \in {Flour, FlourKg, Salt}}, 2)}
    \cup
    {[PlainRecipe("soup") EXCEPT !.tools = ts] :
        ts \in SeqsUpTo({NewTool(n) : n \in ToolNames}, 2)}

NextCatalog ==
    \/ \E u \in Users, data \in CatalogRecipes :
          recipe = {} /\ post_recipe(u, data)
    \/ \E u \in Users, data \in CatalogRecipes :
          patch_recipe(u, 1, data)

SpecCatalog == Init /\ [][NextCatalog]_vars

(***************************************************************************)
(* SpecPatch: one recipe, created and then patched over and over with      *)
(* step lists and component lists of every shape up to MaxLen.             *)
(***************************************************************************)
IngredientLists == {g \in SeqsUpTo({Flour, Salt}, MaxLen) : Distinct(g)}

PatchRecipes ==
    {[PlainRecipe("soup") EXCEPT !.steps = st] :
        st \in SeqsUpTo({NewStep(None, g) : g \in IngredientLists}, MaxLen)}
    \cup
    {[PlainRecipe("soup") EXCEPT !.components = cs] :
        cs \in SeqsUpTo({NewComponent(g) : g \in IngredientLists}, 1)}

NextPatch ==
    \/ \E data \in PatchRecipes :
          recipe = {} /\ post_recipe("u1", data)
    \/ \E u \in Users, data \in PatchRecipes :
          patch_recipe(u, 1, data)

SpecPatch == Init /\ [][NextPatch]_vars

(***************************************************************************)
(* SpecChildren: one recipe, created and then patched over and over with   *)
(* component lists and step lists up to MaxLen whose entries differ in     *)
(* their scalar fields.                                                    *)
(***************************************************************************)
ChildComponents ==
    {[NewComponent(<<>>) EXCEPT !.name = n] : n \in {"dough", "icing"}}

ChildSteps ==
    {[NewStep(None, <<>>) EXCEPT !.description = d] : d \in {"mix", "bake"}}

ChildRecipes ==
    {[PlainRecipe("soup") EXCEPT !.components = cs, !.steps = st] :
        cs \in SeqsUpTo(ChildComponents, MaxLen),
        st \in SeqsUpTo(ChildSteps, MaxLen)}

NextChildren ==
    \/ \E data \in ChildRecipes :
          recipe = {} /\ post_recipe("u1", data)
    \/ \E u \in Users, data \in ChildRecipes :
          patch_recipe(u, 1, data)

SpecChildren == Init /\ [][NextChildren]_vars

(***************************************************************************)
(* SpecRace: two requests create recipes at the same time, naming the      *)
(* same and different ingredients and tools, new and known ones.           *)
(***************************************************************************)
RaceRecipes ==
    {[PlainRecipe("soup") EXCEPT !.components = <<NewComponent(<<g>>)>>,
                                 !.tools = ts] :
        g \in {Flour, FlourKg, Salt}, ts \in {<<>>, <<NewTool("pan")>>}}

NextRace ==
    \/ \E q \in Requests, u \in Users, data \in RaceRecipes :
          post_recipe_reads(q, u, data)
    \/ \E q \in Requests : post_recipe_commit(q)

SpecRace == Init /\ [][NextRace]_vars

(***************************************************************************)
(* SpecPublishRace: one recipe and one book of u1, and publish requests    *)
(* of both users handled at the same time while the clock advances.        *)
(***************************************************************************)
NextPublishRace ==
    \/ recipe = {} /\ post_recipe("u1", PlainRecipe("soup"))
    \/ \E data \in SmallBooks : recipe_book = {} /\ post_recipe_book("u1", data)
    \/ Tick(1)
    \/ \E q \in Requests, u \in Users : publish_recipe_reads(q, u, 1)
    \/ \E q \in Requests : publish_recipe_commit(q)
    \/ \E q \in Requests, u \in Users : publish_recipe_book_reads(q, u, 1)
    \/ \E q \in Requests : publish_recipe_book_commit(q)

SpecPublishRace == Init /\ [][NextPublishRace]_vars

(***************************************************************************)
(* SpecPerm: the user endpoints, called with no token, with a string that  *)
(* is no signed token, with access tokens of every bitmask up to           *)
(* MaxScopes issued at the start, and with a refresh token, while the      *)
(* clock runs past their expiry.                                           *)
(***************************************************************************)
AccessTokens ==
    {[kind |-> "jwt", sub |-> u, jti |-> None, exp |-> 1 + AccessTokenTTL,
      scopes |-> m] : u \in Users, m \in 0..MaxScopes}

Bearers == {NoToken, BadToken} \cup AccessTokens \cup SeedTokens

NextPerm ==
    \/ \E d \in {1, Leeway, AccessTokenTTL} : Tick(d)
    \/ \E token \in Bearers : get_users(token)
    \/ \E token \in Bearers : get_me(token)

SpecPerm == Init /\ [][NextPerm]_vars

(***************************************************************************)
(* SpecUpload: two users upload files of every name, extension, declared   *)
(* type and size, and fetch pictures.                                      *)
(***************************************************************************)
NextUpload ==
    \/ \E u \in Users, file \in Files : upload_picture(u, file)
    \/ \E u \in Users, pid \in PictureIds : get_picture(u, pid)

SpecUpload == Init /\ [][NextUpload]_vars

(***************************************************************************)
(* SpecAtomic: requests that fail half way.  Two users upload pictures;    *)
(* recipes have a cover, a component and two steps, the second with a      *)
(* picture, and name ingredients; a book has a cover and member recipes.   *)
(* A cover can be found and a later picture or member refused.             *)
(***************************************************************************)
AtomicFile ==
    [filename |-> "a", ext |-> "png", content_type |-> "image/png",
     size |-> 1, image |-> TRUE]

AtomicRecipes ==
    {[PlainRecipe("soup") EXCEPT
         !.cover_id = c,
         !.components = <<NewComponent(<<Flour>>)>>,
         !.steps = <<NewStep(None, g), NewStep(pid, <<>>)>>] :
        c \in {None, 1}, pid \in {None, MaxUuid}, g \in {<<>>, <<Salt>>}}

AtomicBooks ==
    [name : {"book"}, cover_id : {None, 1}, tags : {<<>>},
     recipes : {<<>>, <<1>>}]

NextAtomic ==
    \/ \E u \in Users : upload_picture(u, AtomicFile)
    \/ \E u \in Users, data \in AtomicRecipes :
          recipe = {} /\ post_recipe(u, data)
    \/ \E u \in Users, data \in AtomicRecipes : patch_recipe(u, 1, data)
    \/ \E u \in Users : publish_recipe(u, 1)
    \/ \E data \in AtomicBooks :
          recipe_book = {} /\ post_recipe_book("u1", data)
    \/ \E data \in AtomicBooks : patch_recipe_book("u1", 1, data)
    \/ \E u \in Users : publish_recipe_book(u, 1)

SpecAtomic == Init /\ [][NextAtomic]_vars

(***************************************************************************)
(* Publication.                                                            *)
(***************************************************************************)
RecipeRow(id) == {r \in recipe : r.id = id}
BookRow(id) == {b \in recipe_book : b.id = id}

\* C1: `published` is true exactly when published_at is set, and a recipe
\* or recipe book that is published stays published, with the same
\* published_at, whatever request is served next.
C1_PublishedForGood ==
    [][/\ \A r \in recipe : published(r) <=> r.published_at # None
       /\ \A b \in recipe_book : published(b) <=> b.published_at # None
       /\ \A r \in recipe : published(r) =>
             \E q \in recipe' :
                 q.id = r.id /\ published(q) /\ q.published_at = r.published_at
       /\ \A b \in recipe_book : published(b) =>
             \E q \in recipe_book' :
                 q.id = b.id /\ published(q) /\ q.published_at = b.published_at
      ]_vars

\* A published recipe has been patched at a later instant, and is still
\* published.
C1_Witness ==
    /\ resp.op = "patch_recipe" /\ resp.status = 200
    /\ \E r \in RecipeRow(resp.id) :
          published(r) /\ r.updated_at > r.published_at

\* C2: a publish request for a recipe or recipe book that is already
\* published, or that the caller does not own, is answered 403 and changes
\* no stored field; for an id that does not exist it is answered 404.
C2_PublishRefused ==
    [][now' = now =>
         /\ resp'.op = "publish_recipe" =>
               /\ RecipeRow(resp'.id) = {} => resp'.status = 404
               /\ \A r \in RecipeRow(resp'.id) :
                     (published(r) \/ r.user_id # resp'.user) =>
                         resp'.status = 403 /\ UNCHANGED store_vars
         /\ resp'.op = "publish_recipe_book" =>
               /\ BookRow(resp'.id) = {} => resp'.status = 404
               /\ \A b \in BookRow(resp'.id) :
                     (published(b) \/ b.user_id # resp'.user) =>
                         resp'.status = 403 /\ UNCHANGED store_vars
      ]_vars

\* The owner asked to publish a recipe that had been published at an
\* earlier instant, and was refused.
C2_Witness ==
    /\ resp.op = "publish_recipe" /\ resp.status = 403
    /\ \E r \in RecipeRow(resp.id) :
          r.user_id = resp.user /\ published(r) /\ r.published_at < now

\* C3: a fetch by id is answered 200 exactly when the item exists and is
\* published or owned by the caller, 403 exactly when it exists, is not
\* published and belongs to another user, and 404 exactly when no item has
\* the id.
C3_FetchById ==
    /\ resp.op = "get_recipe" =>
          /\ resp.status = 200 <=>
                \E r \in RecipeRow(resp.id) :
                    r.published_at # None \/ r.user_id = resp.user
          /\ resp.status = 403 <=>
                \E r \in RecipeRow(resp.id) :
                    r.published_at = None /\ r.user_id # resp.user
          /\ resp.status = 404 <=> RecipeRow(resp.id) = {}
    /\ resp.op = "get_recipe_book" =>
          /\ resp.status = 200 <=>
                \E b \in BookRow(resp.id) :
                    b.published_at # None \/ b.user_id = resp.user
          /\ resp.status = 403 <=>
                \E b \in BookRow(resp.id) :
                    b.published_at = None /\ b.user_id # resp.user
          /\ resp.status = 404 <=> BookRow(resp.id) = {}

\* A user fetched a published recipe of another user.
C3_Witness ==
    /\ resp.op = "get_recipe" /\ resp.status = 200
    /\ \E r \in RecipeRow(resp.id) :
          r.user_id # resp.user /\ r.published_at # None

\* C4: the list of recipes and the list of recipe books hold exactly the
\* items whose published_at is set, whoever asks.
C4_ListsPublished ==
    /\ resp.op = "get_recipes" =>
          /\ resp.status = 200
          /\ resp.items = {r.id : r \in {x \in recipe : x.published_at # None}}
    /\ resp.op = "get_recipe_books" =>
          /\ resp.status = 200
          /\ resp.items =
                {b.id : b \in {x \in recipe_book : x.published_at # None}}

\* The list was read while a draft and a published recipe both existed.
C4_Witness ==
    /\ resp.op = "get_recipes"
    /\ \E r \in recipe : r.published_at = None
    /\ \E r \in recipe : r.published_at # None /\ r.id \in resp.items

(***************************************************************************)
(* Refresh tokens.                                                         *)
(***************************************************************************)
\* The refresh token a request presents, under whichever cookie name.
Presented(cookies) ==
    IF cookies.request_token.kind # "none" THEN cookies.request_token
    ELSE cookies.refresh_token

\* C5: a refresh request presenting a signed, unexpired refresh token whose
\* jti has no row in the store fails, and afterwards the store holds no
\* refresh-token row of the token's subject, while the rows of the other
\* users are the ones it held before.
C5_UnknownJtiRevokes ==
    [][(/\ resp'.op = "refresh" /\ now' = now
        /\ Presented(resp'.sent).kind = "jwt"
        /\ Presented(resp'.sent).exp + Leeway > now
        /\ \A r \in refresh_token : r.id # Presented(resp'.sent).jti)
       => /\ resp'.status >= 400
          /\ \A r \in refresh_token' : r.user_id # Presented(resp'.sent).sub
          /\ {r \in refresh_token' : r.user_id # Presented(resp'.sent).sub}
               = {r \in refresh_token : r.user_id # Presented(resp'.sent).sub}
      ]_vars

\* C6: when a login has been answered 200, the refresh request that comes
\* next and presents exactly the cookie that login set is answered 200 with
\* an access token and a refresh cookie of another jti, and the row of the
\* old jti is still in the store.
C6_LoginThenRefresh ==
    [][(/\ resp.op = "login" /\ resp.status = 200
        /\ resp'.op = "refresh" /\ now' = now
        /\ resp'.sent = [NoCookies EXCEPT !.refresh_token = resp.cookie])
       => /\ resp'.status = 200
          /\ resp'.access.kind = "jwt"
          /\ resp'.cookie.kind = "jwt"
          /\ resp'.cookie.jti # resp.cookie.jti
          /\ \E r \in refresh_token' : r.id = resp.cookie.jti
      ]_vars

(***************************************************************************)
(* Pictures.                                                               *)
(***************************************************************************)
\* C7: a fetch of an existing picture by a user who is not its owner is
\* answered 403, used or not: GET /pictures/{id} returns nothing to that
\* user, a create or patch that Picture.find refuses for the owner's sake
\* is answered 403, and no recipe refers to a picture of another user.
C7_PictureOfAnother ==
    /\ resp.op = "get_picture" =>
          \A p \in picture :
              (p.id = resp.id /\ p.user_id # resp.user) =>
                  resp.status = 403 /\ resp.items = {}
    /\ (resp.op \in {"post_recipe", "patch_recipe"}
          /\ resp.detail = "Access to picture not allowed") =>
          resp.status = 403
    /\ \A r \in recipe : \A p \in picture :
          (p.id = r.cover_id \/ p.id \in pictures_of(Store, r.id)) =>
              p.user_id = r.user_id

(***************************************************************************)
(* The catalogs.                                                           *)
(***************************************************************************)
ToolNamesOf(data) == [i \in 1..Len(data.tools) |-> data.tools[i].tool_name]

\* C8: find_or_create never leaves two catalog rows of one name, a row
\* that exists keeps its default unit whatever unit a later call gives,
\* and a create or patch that names an ingredient twice, or a tool once,
\* is not failed by the catalog: the request commits.
C8_FindOrCreate ==
    [][/\ \A g, h \in ingredient' : g.name = h.name => g = h
       /\ \A t, v \in tool' : t.name = v.name => t = v
       /\ \A g \in ingredient : g \in ingredient'
       /\ (/\ resp'.op \in {"post_recipe", "patch_recipe"}
           /\ resp'.status \notin {403, 404}
           /\ Distinct(ToolNamesOf(resp'.data)))
          => resp'.status \in {200, 201}
      ]_vars

(***************************************************************************)
(* Patch reconciliation.                                                   *)
(***************************************************************************)
\* What is persisted of a recipe, apart from updated_at.
Persisted(rid) ==
    [recipe |-> {[r EXCEPT !.updated_at = None] : r \in RecipeRow(rid)},
     pictures |-> pictures_of(Store, rid),
     tools |-> {t \in recipe_tool : t.recipe_id = rid},
     components |-> {c \in recipe_component : c.recipe_id = rid},
     steps |-> {c \in recipe_step : c.recipe_id = rid},
     component_ingredients |-> {g \in component_ingredient : g.recipe_id = rid},
     step_ingredients |-> {g \in step_ingredient : g.recipe_id = rid}]

\* C9: when the owner's patch P of a recipe has been answered 200 and the
\* same patch P of the same recipe is answered 200 again right after, the
\* second leaves what is persisted of the recipe as the first left it,
\* apart from updated_at.
C9_PatchIdempotent ==
    [][(/\ resp.op = "patch_recipe" /\ resp.status = 200
        /\ resp'.op = "patch_recipe" /\ resp'.status = 200
        /\ resp'.id = resp.id /\ resp'.user = resp.user
        /\ resp'.data = resp.data)
       => Persisted(resp.id)' = Persisted(resp.id)
      ]_vars

\* C10: after a patch answered 200 whose M submitted steps are fewer than
\* the N steps the recipe had, the recipe has exactly M steps, of indices
\* 0..M-1, and no step ingredient row of the recipe has a step index in
\* M..N-1.
C10_StepsShrink ==
    (resp.op = "patch_recipe" /\ resp.status = 200
        /\ Len(resp.data.steps) < Len(resp.before))
    => LET M == Len(resp.data.steps)
           N == Len(resp.before)
           steps == {c \in recipe_step : c.recipe_id = resp.id}
       IN  /\ Cardinality(steps) = M
           /\ {c.index : c \in steps} = 0..(M - 1)
           /\ \A g \in step_ingredient :
                 g.recipe_id = resp.id => g.recipe_step_index \notin M..(N - 1)

\* A patch took away the last step of a recipe, a step that had ingredient
\* rows, and kept a step before it.
C10_Witness ==
    /\ resp.op = "patch_recipe" /\ resp.status = 200
    /\ 0 < Len(resp.data.steps)
    /\ Len(resp.data.steps) < Len(resp.before)
    /\ resp.before[Len(resp.before)] > 0

(***************************************************************************)
(* Permissions.                                                            *)
(***************************************************************************)
\* Bit k of a bitmask.
Bit(x, k) == (x \div (2 ^ k)) % 2

\* An access token of this service whose expiry, with the leeway, is ahead.
ValidAccess(t) ==
    t.kind = "jwt" /\ t.sub # NULL /\ t.jti = None /\ now < t.exp + Leeway

\* C11: a request with a valid access token of bitmask m to an endpoint
\* that requires the permission set S is answered 200 exactly when every
\* bit of the bitmask of S is set in m, and otherwise with the detail
\* "Not enough permissions"; an endpoint that requires nothing answers
\* 200 whatever m is.  A request with no token gets "Not authenticated",
\* one with an unsigned or an expired token "Invalid token" or
\* "Expired token".
C11_ScopeCheck ==
    [][(now' = now /\ resp'.op \in {"get_users", "get_me"}) =>
         LET t == resp'.bearer
             S == security_scopes_of[resp'.op]
             need == create_permission_bitmask(S)
         IN  /\ t.kind = "none" => resp'.detail = "Not authenticated"
             /\ t.kind = "bad" => resp'.detail = "Invalid token"
             /\ (t.kind = "jwt" /\ t.exp + Leeway <= now) =>
                   resp'.detail = "Expired token"
             /\ ValidAccess(t) =>
                   /\ resp'.status = 200 <=>
                         \A k \in 0..MaxScopes :
                             Bit(need, k) = 1 => Bit(t.scopes, k) = 1
                   /\ resp'.status # 200 =>
                         resp'.detail = "Not enough permissions"
                   /\ S = {} => resp'.status = 200
      ]_vars

\* The list of users was refused to a valid access token whose bitmask is
\* not zero but lacks the admin bit.
C11_Witness ==
    /\ resp.op = "get_users" /\ resp.detail = "Not enough permissions"
    /\ ValidAccess(resp.bearer)
    /\ resp.bearer.scopes > 0

(***************************************************************************)
(* Ownership of a patch.                                                   *)
(***************************************************************************)
\* C12: a patch of a recipe or a recipe book is answered 404 when no item
\* has the id and 403 when the caller is not the owner, published or not,
\* and in both cases nothing stored changes; it is answered 200 only to
\* the owner.
C12_PatchByOwner ==
    [][/\ resp'.op = "patch_recipe" =>
             /\ RecipeRow(resp'.id) = {} =>
                   resp'.status = 404 /\ UNCHANGED store_vars
             /\ \A r \in RecipeRow(resp'.id) :
                   r.user_id # resp'.user =>
                       resp'.status = 403 /\ UNCHANGED store_vars
             /\ resp'.status = 200 =>
                   \E r \in RecipeRow(resp'.id) : r.user_id = resp'.user
       /\ resp'.op = "patch_recipe_book" =>
             /\ BookRow(resp'.id) = {} =>
                   resp'.status = 404 /\ UNCHANGED store_vars
             /\ \A b \in BookRow(resp'.id) :
                   b.user_id # resp'.user =>
                       resp'.status = 403 /\ UNCHANGED store_vars
             /\ resp'.status = 200 =>
                   \E b \in BookRow(resp'.id) : b.user_id = resp'.user
      ]_vars

\* A user asked to patch a published recipe of another user, one whose
\* name differs from the submitted one, and was refused.
C12_Witness ==
    /\ resp.op = "patch_recipe" /\ resp.status = 403
    /\ \E r \in RecipeRow(resp.id) :
          r.user_id # resp.user /\ published(r) /\ r.name # resp.data.name

(***************************************************************************)
(* Uploads.                                                                *)
(***************************************************************************)
\* C13: an upload with a filename is answered 400 exactly when its
\* declared type is none of the accepted types and its extension is none
\* of png, jpeg, jpg, svg, webp; one that passes is answered 413 exactly
\* when its size is unknown or above 5242880 bytes; and an upload answered
\* 200 adds one picture row, of a new id, owned by the uploader, with
\* used = FALSE, while any other answer leaves the store as it was.
C13_UploadChecks ==
    [][resp'.op = "upload_picture" =>
         LET file == resp'.data
             type_ok == \/ file.content_type \in ACCEPTED_FILE_TYPES
                        \/ file.ext \in {"png", "jpeg", "jpg", "svg", "webp"}
         IN  /\ file.filename # "" => (resp'.status = 400 <=> ~type_ok)
             /\ (file.filename # "" /\ type_ok) =>
                   (resp'.status = 413 <=>
                       (file.size = None \/ file.size > 5242880))
             /\ resp'.status = 200 =>
                   /\ \A p \in picture : p.id # resp'.id
                   /\ picture' = picture \cup
                         {[id |-> resp'.id, user_id |-> resp'.user, used |-> FALSE]}
             /\ resp'.status # 200 => UNCHANGED store_vars
      ]_vars

\* A file of exactly 5242880 bytes whose extension is accepted and whose
\* declared type is not was stored.
C13_Witness ==
    /\ resp.op = "upload_picture" /\ resp.status = 200
    /\ resp.data.size = MAX_FILE_SIZE
    /\ resp.data.content_type \notin ACCEPTED_FILE_TYPES
    /\ \E p \in picture : p.id = resp.id /\ p.user_id = resp.user /\ ~p.used

(***************************************************************************)
(* Login.                                                                  *)
(***************************************************************************)
\* C14: a login whose username no user has and a login with the password
\* of no user of that name get the same answer, 400 with the detail
\* "Incorrect username or password", without access token and without
\* refresh cookie, and add no refresh-token row to the store.
C14_BadCredentials ==
    [][(/\ resp'.op = "login"
        /\ \A u \in Users :
              user[u].username = resp'.data.username =>
                  user[u].hashed_password # <<"bcrypt", resp'.data.password>>)
       => /\ resp' = [NoResp EXCEPT !.op = "login",
                         !.user = resp'.data.username, !.data = resp'.data,
                         !.status = 400,
                         !.detail = "Incorrect username or password"]
          /\ resp'.access = NoToken /\ resp'.cookie = NoToken
          /\ UNCHANGED <<store_vars, held>>
      ]_vars

\* A login of a known user with the password of another user was refused
\* while the store held refresh-token rows.
C14_Witness ==
    /\ resp.op = "login" /\ resp.status = 400
    /\ resp.data.username = "u1" /\ resp.data.password = "pw2"
    /\ refresh_token # {}

(***************************************************************************)
(* Failed requests.                                                        *)
(***************************************************************************)
Writes ==
    {"post_recipe", "patch_recipe", "publish_recipe",
     "post_recipe_book", "patch_recipe_book", "publish_recipe_book"}

\* C15: a create, patch or publish request on a recipe or a recipe book
\* that is not answered 200 or 201 leaves every table of the store as it
\* was before the request.
C15_FailureWritesNothing ==
    [][(resp'.op \in Writes /\ resp'.status \notin {200, 201})
       => UNCHANGED store_vars]_vars

\* A patch of a recipe found its cover, which was not yet flagged as used,
\* and was refused the picture of its second step, after a first step
\* naming an ingredient the catalog did not know: the flag is still not
\* set and the catalog still does not know the ingredient.
C15_Witness ==
    /\ resp.op = "patch_recipe" /\ resp.status \in {401, 404}
    /\ \E p \in picture :
          p.id = resp.data.cover_id /\ p.user_id = resp.user /\ ~p.used
    /\ \E r \in RecipeRow(resp.id) : r.user_id = resp.user
    /\ resp.data.steps[1].ingredients = <<Salt>>
    /\ \A g \in ingredient : g.name # Salt.name

(***************************************************************************)
(* What a read returns.                                                    *)
(***************************************************************************)
Reads == {"get_recipe", "get_recipes", "get_recipe_book", "get_recipe_books"}

\* C16: no read returns to a user the content of a recipe that is not
\* published and that the user does not own, be it fetched by id, listed,
\* or returned as a member of a recipe book.
C16_NoDraftReturned ==
    resp.op \in Reads =>
        \A rid \in resp.contains : \A r \in RecipeRow(rid) :
            published(r) \/ r.user_id = resp.user

(***************************************************************************)
(* Members of a recipe book.                                               *)
(***************************************************************************)
\* Whether the user may attach the recipe: it exists, and is published or
\* the user's own.
Attachable(u, rid) ==
    \E r \in RecipeRow(rid) : r.published_at # None \/ r.user_id = u

\* C17: a create of a recipe book (without cover) is answered 404 when the
\* first submitted member that cannot be attached does not exist and 403
\* when it exists but is neither published nor the caller's, and then no
\* book and no membership is stored; when it is answered 200 every
\* submitted member could be attached, and the stored members of the new
\* book are exactly the submitted recipe ids.
C17_BookMembers ==
    [][(resp'.op = "post_recipe_book" /\ resp'.data.cover_id = None) =>
         LET ids == resp'.data.recipes
             u == resp'.user
             firstbad(i) == /\ ~Attachable(u, ids[i])
                            /\ \A j \in 1..(i - 1) : Attachable(u, ids[j])
         IN  /\ \A i \in 1..Len(ids) :
                   firstbad(i) =>
                       /\ resp'.status = IF RecipeRow(ids[i]) = {} THEN 404 ELSE 403
                       /\ recipe_book' = recipe_book
                       /\ recipe_book_recipes' = recipe_book_recipes
             /\ resp'.status = 200 =>
                   /\ \A i \in 1..Len(ids) : Attachable(u, ids[i])
                   /\ BookRow(resp'.id) = {}
                   /\ \E b \in recipe_book' : b.id = resp'.id /\ b.user_id = u
                   /\ {a.recipe_id : a \in {x \in recipe_book_recipes' :
                                               x.recipe_book_id = resp'.id}}
                        = {ids[i] : i \in 1..Len(ids)}
      ]_vars

\* A book was refused (403) for its second member, a draft of another
\* user, after a first member that could be attached; no book is stored.
C17_Witness ==
    /\ resp.op = "post_recipe_book" /\ resp.status = 403
    /\ Len(resp.data.recipes) = 2
    /\ Attachable(resp.user, resp.data.recipes[1])
    /\ \E r \in RecipeRow(resp.data.recipes[2]) :
          r.published_at = None /\ r.user_id # resp.user
    /\ recipe_book = {}

\* C18: after a patch of a recipe book answered 200, the stored members of
\* the book are exactly the recipe ids the patch submitted.
C18_PatchSetsMembers ==
    (resp.op = "patch_recipe_book" /\ resp.status = 200)
    => recipes_of(Store, resp.id) = Range(resp.data.recipes)

(***************************************************************************)
(* Lifetimes.                                                              *)
(***************************************************************************)
\* C19: when a login or a refresh has been answered 200, the refresh token
\* it set as cookie has a row in the store, and the exp of the token and
\* the expires_at of the row are both the instant of issue plus 365 days
\* (in seconds), while the exp of the access token is the instant of issue
\* plus 15 minutes.
C19_Lifetimes ==
    (resp.op \in {"login", "refresh"} /\ resp.status = 200)
    => \E r \in refresh_token :
          /\ r.id = resp.cookie.jti
          /\ r.expires_at = r.created_at + 365 * 24 * 60 * 60
          /\ resp.cookie.exp = r.expires_at
          /\ resp.access.exp = r.created_at + 15 * 60

(***************************************************************************)
(* Rotation.                                                               *)
(***************************************************************************)
\* C20: a refresh request whose token is signed and not expired and whose
\* jti has a row in the store deletes no refresh-token row and adds exactly
\* one, with an id that no row had and with the user of the presented row.
C20_RotationAddsOneRow ==
    [][(/\ resp'.op = "refresh" /\ now' = now
        /\ resp'.sent.request_token.kind = "jwt"
        /\ resp'.sent.request_token.exp + Leeway > now
        /\ \E r \in refresh_token : r.id = resp'.sent.request_token.jti)
       => \E r \in refresh_token :
             /\ r.id = resp'.sent.request_token.jti
             /\ refresh_token \subseteq refresh_token'
             /\ \E n \in refresh_token' :
                   /\ refresh_token' = refresh_token \cup {n}
                   /\ \A q \in refresh_token : q.id # n.id
                   /\ n.user_id = r.user_id
      ]_vars

(***************************************************************************)
(* Pictures and their aggregates.                                          *)
(***************************************************************************)
\* The pictures a recipe refers to: its cover, its picture list and the
\* pictures of its steps.
PicturesOfRecipe(rid) ==
    {r.cover_id : r \in {x \in recipe : x.id = rid}}
    \cup pictures_of(Store, rid)
    \cup {st.picture_id : st \in {x \in recipe_step : x.recipe_id = rid}}

\* C21: in every reachable state, every picture a recipe refers to (cover,
\* picture list, step picture) belongs to the owner of the recipe, and the
\* cover of every book belongs to the owner of the book.
C21_PicturesOfOwner ==
    /\ \A r \in recipe : \A p \in picture :
          p.id \in PicturesOfRecipe(r.id) => p.user_id = r.user_id
    /\ \A b \in recipe_book : \A p \in picture :
          p.id = b.cover_id => p.user_id = b.user_id

\* A patch that lists a picture was accepted and the recipe has it attached,
\* while the other user owns a picture too.
C21_Witness ==
    /\ resp.op = "patch_recipe" /\ resp.status = 200
    /\ resp.data.picture_ids # <<>>
    /\ \E p \in picture : p.user_id # resp.user
    /\ \A r \in recipe : r.id = resp.id => pictures_of(Store, r.id) # {}

(***************************************************************************)
(* Ingredient lists, children and tools after a patch.                     *)
(***************************************************************************)
\* C22: after a patch answered 200, the ingredient rows of the component
\* and of the step at every submitted position are those of the submitted
\* list of that position: entry j with index j and the submitted name,
\* value, unit and hint, and no other row.
C22_IngredientLists ==
    (resp.op = "patch_recipe" /\ resp.status = 200) =>
        /\ \A i \in 1..Len(resp.data.components) :
              {g \in component_ingredient :
                  g.recipe_id = resp.id /\ g.recipe_component_index = i - 1}
              = {ComponentIngredient(resp.id, i - 1, j - 1,
                                     resp.data.components[i].ingredients[j]) :
                    j \in 1..Len(resp.data.components[i].ingredients)}
        /\ \A i \in 1..Len(resp.data.steps) :
              {g \in step_ingredient :
                  g.recipe_id = resp.id /\ g.recipe_step_index = i - 1}
              = {StepIngredient(resp.id, i - 1, j - 1,
                                resp.data.steps[i].ingredients[j]) :
                    j \in 1..Len(resp.data.steps[i].ingredients)}

\* C23: a create answered 201 or a patch answered 200 leaves as components
\* and steps of the recipe exactly the submitted ones: the child at
\* position i has index i and the submitted scalar fields, so that the
\* indices are 0..n-1; and a child that was at a position the patch
\* submits is kept under its primary key, not deleted.
C23_ChildrenAsSubmitted ==
    [][((resp'.op = "post_recipe" /\ resp'.status = 201)
            \/ (resp'.op = "patch_recipe" /\ resp'.status = 200))
       => LET rid == resp'.id
              data == resp'.data
          IN  /\ ByIndex({c \in recipe_component' : c.recipe_id = rid})
                    = [i \in 1..Len(data.components) |->
                          RecipeComponent(rid, i - 1, data.components[i])]
              /\ ByIndex({c \in recipe_step' : c.recipe_id = rid})
                    = [i \in 1..Len(data.steps) |->
                          RecipeStep(rid, i - 1, data.steps[i])]
              /\ \A c \in recipe_component :
                    (c.recipe_id = rid /\ c.index < Len(data.components)) =>
                        \E d \in recipe_component' :
                            component_pk(d) = component_pk(c)
              /\ \A c \in recipe_step :
                    (c.recipe_id = rid /\ c.index < Len(data.steps)) =>
                        \E d \in recipe_step' : component_pk(d) = component_pk(c)
      ]_vars

\* A patch was accepted that renames the first component of a recipe, adds
\* a second one, and submits two steps for a recipe that had one.
C23_Witness ==
    /\ resp.op = "patch_recipe" /\ resp.status = 200
    /\ Len(resp.before) = 1 /\ Len(resp.data.steps) = 2
    /\ Len(resp.data.components) = 2
    /\ resp.data.components[1].name # resp.data.components[2].name
    /\ resp.data.steps[1].description # resp.data.steps[2].description
    /\ \E c \in recipe_component :
          c.recipe_id = resp.id /\ c.index = 1 /\ c.name = "dough"

\* C24: a patch of a recipe by its owner that submits a tool list, be it
\* one that repeats a tool name or one that resubmits a tool the recipe
\* has, is answered 200, and after it the tool associations of the recipe
\* are exactly the submitted ones (name and hint) and every submitted tool
\* name is in the catalog.
C24_ToolsAsSubmitted ==
    [][(/\ resp'.op = "patch_recipe" /\ resp'.status \notin {403, 404}
        /\ resp'.data.components = <<>>)
       => /\ resp'.status = 200
          /\ {t \in recipe_tool' : t.recipe_id = resp'.id}
                = {RecipeTool(resp'.id, resp'.data.tools[i]) :
                      i \in 1..Len(resp'.data.tools)}
          /\ \A i \in 1..Len(resp'.data.tools) :
                \E t \in tool' : t.name = resp'.data.tools[i].tool_name
      ]_vars

(***************************************************************************)
(* The used flag.                                                          *)
(***************************************************************************)
\* The picture ids a create or patch of a recipe or book names.
PicturesNamed(data) ==
    (IF "cover_id" \in DOMAIN data THEN {data.cover_id} ELSE {})
    \cup (IF "picture_ids" \in DOMAIN data THEN Range(data.picture_ids) ELSE {})
    \cup (IF "steps" \in DOMAIN data
          THEN {data.steps[i].picture_id : i \in 1..Len(data.steps)} ELSE {})

\* C25: a picture is stored with used = false by its upload; after a
\* create or patch of a recipe or book that committed, every picture the
\* request names has used = true; a flag that is true is never false
\* again; and a request in which Picture.find fails leaves the picture
\* table as it was.
C25_UsedFlag ==
    [][/\ (resp'.op = "upload_picture" /\ resp'.status = 200) =>
             \A p \in picture' : p.id = resp'.id => ~p.used
       /\ (/\ resp'.op \in {"post_recipe", "patch_recipe",
                             "post_recipe_book", "patch_recipe_book"}
           /\ resp'.status \in {200, 201}) =>
             \A pid \in PicturesNamed(resp'.data) \ {None} :
                 \E p \in picture' : p.id = pid /\ p.used
       /\ \A p \in picture : \A q \in picture' :
             (p.used /\ q.id = p.id) => q.used
       /\ resp'.detail \in {"Picture not found", "Access to picture not allowed"}
             => picture' = picture
      ]_vars

\* A request found its cover, a picture of the caller that was not used,
\* and failed at a later picture: the cover is still not used.
C25_Witness ==
    /\ resp.op \in {"post_recipe", "patch_recipe"}
    /\ resp.detail \in {"Picture not found", "Access to picture not allowed"}
    /\ resp.data.picture_ids # <<>>
    /\ \E p \in picture :
          p.id = resp.data.cover_id /\ p.user_id = resp.user /\ ~p.used
    /\ \E p \in picture : p.used

(***************************************************************************)
(* Refresh-token rows.                                                     *)
(***************************************************************************)
\* C26: when a login or a refresh answers 200, the store has a row for
\* the refresh token it issued, with the token's jti as id and the token's
\* subject as user id.
C26_RowOfIssuedToken ==
    [][(resp'.op \in {"login", "refresh"} /\ resp'.status = 200)
       => \E r \in refresh_token' :
             r.id = resp'.cookie.jti /\ r.user_id = resp'.cookie.sub
      ]_vars

(***************************************************************************)
(* Requests at the same time.                                              *)
(***************************************************************************)
\* C27: when requests that create recipes run at the same time, the
\* catalogs never hold two rows of one name; a request whose commit fails
\* on a catalog row that another request inserted first is answered 500
\* and leaves the store as it was; and a request that commits leaves every
\* ingredient and tool it names in the catalog.
C27_OneCatalogRow ==
    [][/\ \A g, h \in ingredient' : g.name = h.name => g = h
       /\ \A t, v \in tool' : t.name = v.name => t = v
       /\ (resp'.op = "post_recipe" /\ resp'.status = 500)
             => UNCHANGED store_vars
       /\ (resp'.op = "post_recipe" /\ resp'.status = 201) =>
             /\ \A i \in 1..Len(ingredient_calls(resp'.data)) :
                   \E g \in ingredient' :
                       g.name = ingredient_calls(resp'.data)[i].name
             /\ \A i \in 1..Len(resp'.data.tools) :
                   \E t \in tool' : t.name = resp'.data.tools[i].tool_name
             /\ \E c \in recipe' : c.id = resp'.id
             /\ \E c \in component_ingredient' : c.recipe_id = resp'.id
      ]_vars

\* Two requests both found the ingredient missing; one has inserted it
\* and committed, the other has failed, and the catalog has the one row.
C27_Witness ==
    /\ inflight[1].pc = "done" /\ inflight[2].pc = "done"
    /\ {inflight[1].status, inflight[2].status} = {201, 500}
    /\ Len(inflight[1].new_ing) = 1 /\ Len(inflight[2].new_ing) = 1
    /\ inflight[1].new_ing[1].name = inflight[2].new_ing[1].name
    /\ inflight[1].new_ing[1].default_unit # inflight[2].new_ing[1].default_unit
    /\ Cardinality(ingredient) = 1 /\ Cardinality(recipe) = 1

\* C28: of the publish requests for one recipe, or for one book, that are
\* handled at the same time, at most one is answered 200, and a
\* published_at that is set is never changed.
C28_PublishOnce ==
    [][/\ \A q1, q2 \in Requests :
             (/\ q1 # q2
              /\ inflight'[q1].pc = "done" /\ inflight'[q2].pc = "done"
              /\ inflight'[q1].op = inflight'[q2].op
              /\ inflight'[q1].id = inflight'[q2].id)
             => ~(inflight'[q1].status = 200 /\ inflight'[q2].status = 200)
       /\ \A x \in recipe : \A y \in recipe' :
             (x.id = y.id /\ x.published_at # None)
                 => y.published_at = x.published_at
       /\ \A x \in recipe_book : \A y \in recipe_book' :
             (x.id = y.id /\ x.published_at # None)
                 => y.published_at = x.published_at
      ]_vars

(***************************************************************************)
(* Members of books.                                                       *)
(***************************************************************************)
\* C29: in every reachable state, every member of every book is a recipe
\* that exists and that is published or belongs to the owner of the book.
C29_MembersVisibleToOwner ==
    \A b \in recipe_book : \A rid \in recipes_of(Store, b.id) :
        /\ RecipeRow(rid) # {}
        /\ \A r \in RecipeRow(rid) : published(r) \/ r.user_id = b.user_id

\* A book has two members: a published recipe of another user and a draft
\* of the owner of the book.
C29_Witness ==
    \E b \in recipe_book : \E r1, r2 \in recipe :
        /\ {r1.id, r2.id} \subseteq recipes_of(Store, b.id)
        /\ r1.user_id # b.user_id /\ published(r1)
        /\ r2.user_id = b.user_id /\ ~published(r2)

(***************************************************************************)
(* What a request never deletes.                                           *)
(***************************************************************************)
\* C30: no request deletes a picture row or a recipe row: a patch that
\* leaves out a picture the recipe had takes away the association only,
\* and every picture and recipe that was stored is stored after it.
C30_NoRowDeleted ==
    [][/\ \A p \in picture : \E q \in picture' : q.id = p.id
       /\ \A r \in recipe : \E q \in recipe' : q.id = r.id
      ]_vars
====
